---- MODULE Spec2Model ----
(***************************************************************************)
(* State-machine model of the UAR data fetcher: the command dispatcher     *)
(* (index.ts main), the five services and the adapters they call.          *)
(* Every await of the program is one step; the external systems answer     *)
(* each request with a response chosen from a small set.                   *)
(***************************************************************************)
EXTENDS Integers, Sequences, FiniteSets, TLC

(***************************************************************************)
(* Bounds                                                                  *)
(***************************************************************************)
\* largest number of ids given on the command line
MaxIds == 2

(***************************************************************************)
(* JavaScript values                                                       *)
(***************************************************************************)
Null == "<null>"
Undef == "<undefined>"

\* the falsy values a string-typed field can take
Falsy(v) == v \in {Undef, Null, ""}

\* a || b on string-typed values
OrElse(a, b) == IF Falsy(a) THEN b ELSE a

SeqsUpTo(S, n) == UNION {[1..k -> S] : k \in 0..n}

(***************************************************************************)
(* index.ts: built-in defaults and the ids a caller may pass               *)
(***************************************************************************)
defaultPayrollRunIds == <<"payrun_default">>
defaultEmployerIds == <<"er_default">>

PayrollRunIds == {"payrun_1", "payrun_2"}
EmployerIds == {"er_1", "er_2"}
WorkerIds == {"wr_1", "wr_2"}

Commands ==
  {"get-increase-transaction", "get-employer-info", "get-employer-bank-info",
   "get-worker-bank-info", "get-worker-info"}

\* process.argv.slice(2): the command followed by its arguments
ArgvSet ==
  {<<>>, <<"bogus">>, <<"bogus", "er_1">>, <<"run-all">>}
  \cup {<<"get-increase-transaction">> \o a : a \in SeqsUpTo(PayrollRunIds, MaxIds)}
  \cup {<<c>> \o a : c \in Commands \ {"get-increase-transaction"},
                     a \in SeqsUpTo(EmployerIds, MaxIds)}
  \cup {<<"get-worker-info", "--worker-id">> \o a : a \in SeqsUpTo(WorkerIds, MaxIds)}

\* process.env: which credentials are set
AllSet ==
  [MODERN_TREASURY |-> TRUE, INCREASE_API_KEY |-> TRUE,
   SALSA_AUTH_TOKEN |-> TRUE, NEO4J_PASSWORD |-> TRUE]

\* every credential set, one of them missing, or all of them missing
EnvSet ==
  {AllSet} \cup {[AllSet EXCEPT ![c] = FALSE] : c \in DOMAIN AllSet}
  \cup {[c \in DOMAIN AllSet |-> FALSE]}

(***************************************************************************)
(* Output files and their CSV schemas                                      *)
(***************************************************************************)
OutputFile ==
  [getIncreaseTransactions |-> "output/increase-transactions.csv",
   getEmployerInfo |-> "output/employer-business-info.csv",
   getEmployerBankInfo |-> "output/employer-bank-info.csv",
   getWorkerBankInfo |-> "output/worker-bank-info.csv",
   getWorkerInfo |-> "output/worker-personal-info.csv"]

Services == DOMAIN OutputFile

FileNames == {OutputFile[s] : s \in Services}

Header ==
  [getIncreaseTransactions |->
     {"payroll_run_id", "direction", "effective_date", "amount", "transaction_id"},
   getEmployerInfo |->
     {"employer_id", "business_name", "ein", "address_line1", "address_line2",
      "city", "state", "postal_code"},
   getEmployerBankInfo |->
     {"employer_id", "bank_name", "account_number", "routing_number", "party_name",
      "authorizer_first_name", "authorizer_last_name", "authorizer_email",
      "client_ip", "id"},
   getWorkerBankInfo |->
     {"employer_id", "worker_id", "bank_name", "account_number", "routing_number",
      "party_name", "is_deleted", "created_date"},
   getWorkerInfo |->
     {"employer_id", "worker_id", "first_name", "last_name", "date_of_birth",
      "address_line1", "address_line2", "city", "state", "postal_code", "ssn"}]

(***************************************************************************)
(* modern-treasury.ts: payment orders                                      *)
(***************************************************************************)
Ref(type, number) == [reference_number_type |-> type, reference_number |-> number]

\* a payment order with one transfer-id reference
po_a ==
  [id |-> "po_a", amount |-> 100, direction |-> "credit", effective_date |-> "2024-01-05",
   reference_numbers |-> <<Ref("bnk_dev_transfer_id", "ach_1")>>]
\* a payment order without a transfer-id reference
po_b ==
  [id |-> "po_b", amount |-> 250, direction |-> "debit", effective_date |-> "2024-01-06",
   reference_numbers |-> <<Ref("ach_trace_number", "trace_9")>>]
\* a payment order whose transfer-id reference is neither first nor unique
po_c ==
  [id |-> "po_c", amount |-> 75, direction |-> "debit", effective_date |-> "2024-01-07",
   reference_numbers |-> <<Ref("ach_trace_number", "trace_7"),
                           Ref("bnk_dev_transfer_id", "ach_2"),
                           Ref("bnk_dev_transfer_id", "ach_3")>>]
\* a payment order whose transfer-id reference carries an empty number
po_d ==
  [id |-> "po_d", amount |-> 30, direction |-> "credit", effective_date |-> "2024-01-08",
   reference_numbers |-> <<Ref("bnk_dev_transfer_id", "")>>]

\* the bodies Modern Treasury may answer with
PaymentOrderBodies == {<<>>, <<po_a, po_b>>, <<po_c, po_a>>, <<po_d>>}

\* the responses axios may deliver for GET /api/payment_orders
ModernTreasuryResponses ==
  {[status |-> 200, isArray |-> TRUE, data |-> b] : b \in PaymentOrderBodies}
  \cup {[status |-> 200, isArray |-> FALSE, data |-> <<>>],
        [status |-> 500, isArray |-> FALSE, data |-> <<>>]}

\* variant: the last transfer-id reference is taken
extractACHTransferId_last(paymentOrder) ==
  LET refs == paymentOrder.reference_numbers
      hits == {i \in 1..Len(refs) :
                 refs[i].reference_number_type = "bnk_dev_transfer_id"}
  IN  IF hits = {} THEN Null
      ELSE OrElse(refs[CHOOSE i \in hits : \A j \in hits : i >= j].reference_number,
                  Null)

extractACHTransferId(paymentOrder) ==
  LET refs == paymentOrder.reference_numbers
      hits == {i \in 1..Len(refs) :
                 refs[i].reference_number_type = "bnk_dev_transfer_id"}
  IN  IF hits = {} THEN Null
      ELSE OrElse(refs[CHOOSE i \in hits : \A j \in hits : i <= j].reference_number,
                  Null)

\* The outcome of an adapter call: what it returns or that it throws,
\* whether an outbound request was issued on the way, and how many.
Returned(v) == [kind |-> "ok", value |-> v, err |-> "", sent |-> TRUE, requests |-> 1]

\* variant: a failed request is issued a second time before the error is
\* raised
Threw_retried(e, wasSent) ==
  [kind |-> "throw", value |-> <<>>, err |-> e, sent |-> wasSent,
   requests |-> IF wasSent THEN 2 ELSE 0]

Threw(e, wasSent) ==
  [kind |-> "throw", value |-> <<>>, err |-> e, sent |-> wasSent,
   requests |-> IF wasSent THEN 1 ELSE 0]

\* fetchPaymentOrders issues the request without looking at any credential;
\* axios rejects a non-2xx status, the adapter rejects a non-array body.
fetchPaymentOrders(username, password, params, response) ==
  IF response.status # 200 THEN Threw("unavailable", TRUE)
  ELSE IF ~response.isArray THEN Threw("invalid", TRUE)
  ELSE Returned(response.data)

(***************************************************************************)
(* increase.ts: ACH transfers                                              *)
(***************************************************************************)
TransactionOf ==
  [ach_1 |-> "txn_1", ach_2 |-> "txn_2", ach_3 |-> "txn_3"]

IncreaseResponses(achTransactionId) ==
  {[status |-> 200, hasData |-> TRUE,
    data |-> [id |-> achTransactionId, amount |-> 100,
              transaction_id |-> TransactionOf[achTransactionId]]],
   [status |-> 200, hasData |-> TRUE,
    data |-> [id |-> achTransactionId, amount |-> 100, transaction_id |-> ""]],
   [status |-> 500, hasData |-> FALSE,
    data |-> [id |-> "", amount |-> 0, transaction_id |-> ""]]}

fetchACHTransfer(apiKey, response) ==
  IF ~apiKey THEN Threw("configuration", FALSE)
  ELSE IF response.status # 200 THEN Threw("unavailable", TRUE)
  ELSE IF ~response.hasData \/ Falsy(response.data.transaction_id)
       THEN Threw("invalid", TRUE)
  ELSE Returned(response.data)

(***************************************************************************)
(* State                                                                   *)
(***************************************************************************)
VARIABLES
  argv,          \* process.argv.slice(2)
  env,           \* process.env: credential present or not
  mainpc,        \* position of main: "start", "run", "exited"
  todo,          \* service invocations main has still to make
  exitCode,      \* -1 while the process runs, then 0 or 1
  usage,         \* TRUE once a usage text has been printed
  LOG_MODE,      \* logger.ts: the log mode read when the module is loaded
  console,       \* the levels of the lines written to the console so far
  svcCalls,      \* the service invocations main has made, with their outcome
  frame,         \* the running service: name, position, arguments, loop state
  allRecords,    \* the Output Record Set of the running (or last run) service
  thrown,        \* TRUE while an error propagates from a service to main
  files,         \* the output files as this process has written them
  handed,        \* per output file, the record sets passed to writeRecords
  calls,         \* the adapter calls made, with outcome and request flag
  interceptors,  \* number of interceptors registered on the axios instance
  neo4jDriver,   \* the process-wide driver: 0 for null, else the instance
  driversCreated,\* number of driver instances created so far
  sessions       \* the Neo4j sessions whose query is in flight

vars ==
  <<argv, env, mainpc, todo, exitCode, usage, svcCalls, frame, allRecords,
    thrown, files, handed, calls, interceptors, neo4jDriver, driversCreated,
    sessions, LOG_MODE, console>>

\* the state of the Neo4j adapter
neo4jVars == <<neo4jDriver, driversCreated, sessions>>

(***************************************************************************)
(* utils/logger.ts                                                         *)
(***************************************************************************)
\* the values process.env.LOG_MODE may have: unset, or a string
RawLogModes == {Undef, "DEBUG", "TRACE", "VERBOSE"}

\* log, logDebug, logTrace, logError under log mode `mode`: the level of
\* the line written to the console, if any
log(mode) == IF mode = "INFO" \/ mode = "DEBUG" \/ mode = "TRACE" THEN {"INFO"} ELSE {}

\* variant: debug lines are shown in DEBUG mode only
logDebug_only(mode) == IF mode = "DEBUG" THEN {"DEBUG"} ELSE {}

logDebug(mode) == IF mode = "DEBUG" \/ mode = "TRACE" THEN {"DEBUG"} ELSE {}

logTrace(mode) == IF mode = "TRACE" THEN {"TRACE"} ELSE {}

logError(mode) == {"ERROR"}

\* the handler writes the given lines
writes(levels) == console' = console \cup levels

IdleFrame ==
  [svc |-> "none", spc |-> "", ids |-> <<>>, idType |-> "", ki |-> 0,
   items |-> <<>>, index |-> 0, waiting |-> {},
   got |-> [active |-> <<>>, deleted |-> <<>>]]

ServiceCall(s, a, t) == [svc |-> s, ids |-> a, idType |-> t, outcome |-> "pending"]

\* one entry of the adapter-call log
CallEntry(fn, sys, arg, out) ==
  [fn |-> fn, sys |-> sys, arg |-> arg, sent |-> out.sent, requests |-> out.requests,
   kind |-> out.kind, err |-> out.err, value |-> out.value]

SetOutcome(o) == [svcCalls EXCEPT ![Len(svcCalls)].outcome = o]

\* the running service returns to main
ServiceReturns ==
  /\ frame' = IdleFrame
  /\ svcCalls' = SetOutcome("returned")
  /\ UNCHANGED thrown

\* an error propagates out of the running service
ServiceThrows ==
  /\ frame' = IdleFrame
  /\ svcCalls' = SetOutcome("threw")
  /\ thrown' = TRUE

(***************************************************************************)
(* csv-writer                                                              *)
(***************************************************************************)
\* csvWriter.writeRecords(records): the file is replaced when the write
\* succeeds and left alone when it fails
writeRecords(path, records, ok) ==
  /\ handed' = [handed EXCEPT ![path] = Append(@, records)]
  /\ files' = IF ok THEN [files EXCEPT ![path] = [exists |-> TRUE, rows |-> records]]
              ELSE files

(***************************************************************************)
(* index.ts main                                                           *)
(***************************************************************************)
\* variant: the arguments are ignored
idsOrDefault_defaults(args, defaults) == defaults

\* the ids a command runs with: the arguments, or the defaults when none
idsOrDefault(args, defaults) == IF Len(args) = 0 THEN defaults ELSE args

\* the switch of main: whether usage is printed and which services are
\* invoked, in order
main(av) ==
  IF Len(av) = 0 THEN [usage |-> TRUE, calls |-> <<>>]
  ELSE
    LET command == av[1]
        args == Tail(av)
    IN  CASE command = "run-all" ->
               [usage |-> FALSE,
                calls |-> <<ServiceCall("getIncreaseTransactions", defaultPayrollRunIds, ""),
                            ServiceCall("getEmployerInfo", defaultEmployerIds, ""),
                            ServiceCall("getEmployerBankInfo", defaultEmployerIds, ""),
                            ServiceCall("getWorkerBankInfo", defaultEmployerIds, ""),
                            ServiceCall("getWorkerInfo", defaultEmployerIds, "employer")>>]
          [] command = "get-increase-transaction" ->
               [usage |-> FALSE,
                calls |-> <<ServiceCall("getIncreaseTransactions",
                                        idsOrDefault(args, defaultPayrollRunIds), "")>>]
          [] command = "get-employer-info" ->
               [usage |-> FALSE,
                calls |-> <<ServiceCall("getEmployerInfo",
                                        idsOrDefault(args, defaultEmployerIds), "")>>]
          [] command = "get-employer-bank-info" ->
               [usage |-> FALSE,
                calls |-> <<ServiceCall("getEmployerBankInfo",
                                        idsOrDefault(args, defaultEmployerIds), "")>>]
          [] command = "get-worker-bank-info" ->
               [usage |-> FALSE,
                calls |-> <<ServiceCall("getWorkerBankInfo",
                                        idsOrDefault(args, defaultEmployerIds), "")>>]
          [] command = "get-worker-info" ->
               LET isWorkerIdMode == Len(args) > 0 /\ args[1] = "--worker-id"
                   theIds == IF isWorkerIdMode THEN Tail(args) ELSE args
                   theType == IF isWorkerIdMode THEN "worker" ELSE "employer"
               IN  IF Len(theIds) = 0
                   THEN IF theType = "worker"
                        THEN [usage |-> TRUE, calls |-> <<>>]
                        ELSE [usage |-> FALSE,
                              calls |-> <<ServiceCall("getWorkerInfo",
                                                      defaultEmployerIds, "employer")>>]
                   ELSE [usage |-> FALSE,
                         calls |-> <<ServiceCall("getWorkerInfo", theIds, theType)>>]
          [] OTHER -> [usage |-> TRUE, calls |-> <<>>]

\* variant: an unknown command falls through to the run-all case
main_start_fallthrough ==
  /\ mainpc = "start"
  /\ writes(log(LOG_MODE))
  /\ mainpc' = "run"
  /\ usage' = main(argv).usage
  /\ todo' = IF Len(argv) > 0 /\ argv[1] \notin Commands
             THEN main(<<"run-all">>).calls ELSE main(argv).calls
  /\ UNCHANGED <<LOG_MODE, argv, env, exitCode, svcCalls, frame, allRecords, thrown, files,
                 handed, calls, interceptors,
                 neo4jVars>>

\* main reads the command and enters the switch
main_start ==
  /\ mainpc = "start"
  /\ writes(log(LOG_MODE))
  /\ mainpc' = "run"
  /\ usage' = main(argv).usage
  /\ todo' = main(argv).calls
  /\ UNCHANGED <<LOG_MODE, argv, env, exitCode, svcCalls, frame, allRecords, thrown, files,
                 handed, calls, interceptors,
                 neo4jVars>>

\* variant: main goes on to the next service after an error
main_call_continue ==
  /\ mainpc = "run" /\ frame.svc = "none" /\ todo # <<>>
  /\ svcCalls' = Append(svcCalls, Head(todo))
  /\ todo' = Tail(todo)
  /\ frame' = [IdleFrame EXCEPT !.svc = Head(todo).svc, !.spc = "keys",
                                  !.ids = Head(todo).ids,
                                  !.idType = Head(todo).idType, !.ki = 1]
  /\ writes(log(LOG_MODE))
  /\ allRecords' = <<>>
  /\ UNCHANGED <<LOG_MODE, argv, env, mainpc, exitCode, usage, thrown, files, handed, calls,
                 interceptors,
                 neo4jVars>>

\* main awaits the next service of the command
main_call ==
  /\ mainpc = "run" /\ frame.svc = "none" /\ ~thrown /\ todo # <<>>
  /\ svcCalls' = Append(svcCalls, Head(todo))
  /\ todo' = Tail(todo)
  /\ frame' = [IdleFrame EXCEPT !.svc = Head(todo).svc, !.spc = "keys",
                                  !.ids = Head(todo).ids,
                                  !.idType = Head(todo).idType, !.ki = 1]
  /\ writes(log(LOG_MODE))
  /\ allRecords' = <<>>
  /\ UNCHANGED <<LOG_MODE, argv, env, mainpc, exitCode, usage, thrown, files, handed, calls,
                 interceptors,
                 neo4jVars>>

\* main returns: the process ends with exit code 0
main_return ==
  /\ mainpc = "run" /\ frame.svc = "none" /\ ~thrown /\ todo = <<>>
  /\ mainpc' = "exited"
  /\ writes(log(LOG_MODE))
  /\ exitCode' = 0
  /\ UNCHANGED <<LOG_MODE, argv, env, todo, usage, svcCalls, frame, allRecords, thrown, files,
                 handed, calls, interceptors,
                 neo4jVars>>

\* variant: the catch block logs the error and lets the process end normally
main_catch_swallow ==
  /\ mainpc = "run" /\ thrown
  /\ mainpc' = "exited"
  /\ writes(logError(LOG_MODE))
  /\ exitCode' = 0
  /\ thrown' = FALSE
  /\ UNCHANGED <<LOG_MODE, argv, env, todo, usage, svcCalls, frame, allRecords, files, handed,
                 calls, interceptors,
                 neo4jVars>>

\* the catch block of main: process.exit(1)
main_catch ==
  /\ mainpc = "run" /\ thrown
  /\ mainpc' = "exited"
  /\ writes(logError(LOG_MODE))
  /\ exitCode' = 1
  /\ thrown' = FALSE
  /\ UNCHANGED <<LOG_MODE, argv, env, todo, usage, svcCalls, frame, allRecords, files, handed,
                 calls, interceptors,
                 neo4jVars>>

(***************************************************************************)
(* services/increase-transactions.ts                                       *)
(***************************************************************************)
\* the for-loop over payrollRunIds: fetch the payment orders of the next id
getIncreaseTransactions_fetch ==
  /\ frame.svc = "getIncreaseTransactions" /\ frame.spc = "keys"
  /\ frame.ki <= Len(frame.ids)
  /\ \E response \in ModernTreasuryResponses :
       LET payrollRunId == frame.ids[frame.ki]
           modernTreasuryParams == [per_page |-> 100, payrollRunId |-> payrollRunId]
           \* the service passes the params object as the first argument
           out == fetchPaymentOrders(modernTreasuryParams, Undef, Undef, response)
       IN  /\ interceptors' = [request |-> interceptors.request + 1,
                               response |-> interceptors.response + 1]
           /\ writes(log(LOG_MODE) \cup logTrace(LOG_MODE) \cup (IF out.kind = "throw" THEN logError(LOG_MODE) ELSE {}))
           /\ calls' = Append(calls, CallEntry("fetchPaymentOrders", "ModernTreasury",
                                               payrollRunId, out))
           /\ IF out.kind = "throw" THEN ServiceThrows /\ UNCHANGED allRecords
              ELSE /\ frame' = IF out.value = <<>>
                               THEN [frame EXCEPT !.ki = @ + 1]
                               ELSE [frame EXCEPT !.spc = "orders", !.items = out.value,
                                                  !.index = 1]
                   /\ UNCHANGED <<allRecords, svcCalls, thrown>>
  /\ UNCHANGED <<LOG_MODE, argv, env, mainpc, todo, exitCode, usage, files, handed,
                 neo4jVars>>

\* the frame after the inner loop has dealt with the current item
AfterItem ==
  IF frame.index + 1 > Len(frame.items)
  THEN [frame EXCEPT !.spc = "keys", !.ki = @ + 1, !.items = <<>>, !.index = 0]
  ELSE [frame EXCEPT !.index = @ + 1]

\* variant: the id of the ACH transfer is written as the transaction id
IncreaseRecord_transferId(payrollRunId, order, increaseData) ==
  [payroll_run_id |-> payrollRunId,
   direction |-> order.direction,
   effective_date |-> order.effective_date,
   amount |-> order.amount,
   transaction_id |-> increaseData.id]

IncreaseRecord(payrollRunId, order, increaseData) ==
  [payroll_run_id |-> payrollRunId,
   direction |-> order.direction,
   effective_date |-> order.effective_date,
   amount |-> order.amount,
   transaction_id |-> increaseData.transaction_id]

\* variant: a payment order without ACH transfer id is fatal
getIncreaseTransactions_order_strict ==
  /\ frame.svc = "getIncreaseTransactions" /\ frame.spc = "orders"
  /\ LET order == frame.items[frame.index]
         achTransferId == extractACHTransferId(order)
     IN  IF ~Falsy(achTransferId)
         THEN \E response \in IncreaseResponses(achTransferId) :
                LET out == fetchACHTransfer(env.INCREASE_API_KEY, response)
                IN  /\ writes(log(LOG_MODE) \cup logDebug(LOG_MODE) \cup (IF out.sent THEN logTrace(LOG_MODE) ELSE {})
                           \cup (IF out.sent /\ out.kind = "throw" THEN logError(LOG_MODE) ELSE {}))
                    /\ calls' = Append(calls, CallEntry("fetchACHTransfer", "Increase",
                                                        achTransferId, out))
                    /\ IF out.kind = "throw" THEN ServiceThrows /\ UNCHANGED allRecords
                       ELSE /\ allRecords' =
                                 Append(allRecords,
                                        IncreaseRecord(frame.ids[frame.ki], order, out.value))
                            /\ frame' = AfterItem
                            /\ UNCHANGED <<svcCalls, thrown>>
         ELSE /\ writes(log(LOG_MODE) \cup logDebug(LOG_MODE))
              /\ ServiceThrows
              /\ UNCHANGED <<allRecords, calls>>
  /\ UNCHANGED <<LOG_MODE, argv, env, mainpc, todo, exitCode, usage, files, handed, interceptors,
                 neo4jVars>>

\* variant: a failed ACH-transfer fetch skips the payment order
getIncreaseTransactions_order_tolerant ==
  /\ frame.svc = "getIncreaseTransactions" /\ frame.spc = "orders"
  /\ LET order == frame.items[frame.index]
         achTransferId == extractACHTransferId(order)
     IN  IF ~Falsy(achTransferId)
         THEN \E response \in IncreaseResponses(achTransferId) :
                LET out == fetchACHTransfer(env.INCREASE_API_KEY, response)
                IN  /\ writes(log(LOG_MODE) \cup logDebug(LOG_MODE) \cup (IF out.sent THEN logTrace(LOG_MODE) ELSE {})
                           \cup (IF out.sent /\ out.kind = "throw" THEN logError(LOG_MODE) ELSE {}))
                    /\ calls' = Append(calls, CallEntry("fetchACHTransfer", "Increase",
                                                        achTransferId, out))
                    /\ allRecords' =
                         IF out.kind = "throw" THEN allRecords
                         ELSE Append(allRecords,
                                     IncreaseRecord(frame.ids[frame.ki], order, out.value))
                    /\ frame' = AfterItem
                    /\ UNCHANGED <<svcCalls, thrown>>
         ELSE /\ writes(log(LOG_MODE) \cup logDebug(LOG_MODE))
              /\ frame' = AfterItem
              /\ UNCHANGED <<allRecords, svcCalls, thrown, calls>>
  /\ UNCHANGED <<LOG_MODE, argv, env, mainpc, todo, exitCode, usage, files, handed, interceptors,
                 neo4jVars>>

\* the inner for-loop over paymentOrders: one payment order
getIncreaseTransactions_order ==
  /\ frame.svc = "getIncreaseTransactions" /\ frame.spc = "orders"
  /\ LET order == frame.items[frame.index]
         achTransferId == extractACHTransferId(order)
     IN  IF ~Falsy(achTransferId)
         THEN \E response \in IncreaseResponses(achTransferId) :
                LET out == fetchACHTransfer(env.INCREASE_API_KEY, response)
                IN  /\ writes(log(LOG_MODE) \cup logDebug(LOG_MODE) \cup (IF out.sent THEN logTrace(LOG_MODE) ELSE {})
                           \cup (IF out.sent /\ out.kind = "throw" THEN logError(LOG_MODE) ELSE {}))
                    /\ calls' = Append(calls, CallEntry("fetchACHTransfer", "Increase",
                                                        achTransferId, out))
                    /\ IF out.kind = "throw" THEN ServiceThrows /\ UNCHANGED allRecords
                       ELSE /\ allRecords' =
                                 Append(allRecords,
                                        IncreaseRecord(frame.ids[frame.ki], order, out.value))
                            /\ frame' = AfterItem
                            /\ UNCHANGED <<svcCalls, thrown>>
         ELSE /\ writes(log(LOG_MODE) \cup logDebug(LOG_MODE))
              /\ frame' = AfterItem
              /\ UNCHANGED <<allRecords, svcCalls, thrown, calls>>
  /\ UNCHANGED <<LOG_MODE, argv, env, mainpc, todo, exitCode, usage, files, handed, interceptors,
                 neo4jVars>>

\* variant: the write is reached one iteration early (>= for >)
getIncreaseTransactions_write_early ==
  /\ frame.svc = "getIncreaseTransactions" /\ frame.spc = "keys"
  /\ frame.ki >= Len(frame.ids)
  /\ writes(log(LOG_MODE))
  /\ \E ok \in BOOLEAN :
       /\ writeRecords(OutputFile.getIncreaseTransactions, allRecords, ok)
       /\ IF ok THEN ServiceReturns ELSE ServiceThrows
  /\ UNCHANGED <<LOG_MODE, argv, env, mainpc, todo, exitCode, usage, allRecords, calls,
                 interceptors, neo4jVars>>

\* after the loop: the records are written to increase-transactions.csv
getIncreaseTransactions_write ==
  /\ frame.svc = "getIncreaseTransactions" /\ frame.spc = "keys"
  /\ frame.ki > Len(frame.ids)
  /\ writes(log(LOG_MODE))
  /\ \E ok \in BOOLEAN :
       /\ writeRecords(OutputFile.getIncreaseTransactions, allRecords, ok)
       /\ IF ok THEN ServiceReturns ELSE ServiceThrows
  /\ UNCHANGED <<LOG_MODE, argv, env, mainpc, todo, exitCode, usage, allRecords, calls,
                 interceptors, neo4jVars>>

(***************************************************************************)
(* salsa-graphql.ts: employers and workers                                 *)
(***************************************************************************)
\* String.prototype.toUpperCase on the administrative areas of the model
toUpperCase(str) ==
  CASE str = "ca" -> "CA"
    [] str = "Ny" -> "NY"
    [] OTHER -> str

TaxId(typeId, v) == [id |-> "tid", type |-> [id |-> typeId, name |-> "n"], value |-> v]

Address(line2, area) ==
  [addressLine1 |-> "1 Main St", addressLine2 |-> line2, administrativeArea |-> area,
   locality |-> "Springfield", postalCode |-> "94000", country |-> "US"]

NoAddress == Address(Null, "")

\* an employer with a filing address and an EIN in its second jurisdiction
EmployerFull(employerId) ==
  [id |-> employerId, businessName |-> "Acme", legalName |-> "Acme Inc",
   taxesSetupByJurisdiction |->
     <<[taxIdentifiers |-> <<TaxId("key:taxid:us:ca", "111"),
                             TaxId("key:taxid:us:fein", Null)>>],
       [taxIdentifiers |-> <<TaxId("key:taxid:us:fein", "12-3456789"),
                             TaxId("key:taxid:us:fein", "98-7654321")>>]>>,
   hasFilingAddress |-> TRUE,
   filingAddress |-> [address |-> Address("Suite 5", "ca")]]

\* an employer whose filing address has no second line
EmployerNoLine2(employerId) ==
  [id |-> employerId, businessName |-> "Bolt", legalName |-> "Bolt LLC",
   taxesSetupByJurisdiction |->
     <<[taxIdentifiers |-> <<TaxId("key:taxid:us:fein", "55-5555555")>>]>>,
   hasFilingAddress |-> TRUE,
   filingAddress |-> [address |-> Address(Null, "Ny")]]

\* an employer without filing address and without tax setup
EmployerBare(employerId) ==
  [id |-> employerId, businessName |-> "Core", legalName |-> "Core Co",
   taxesSetupByJurisdiction |-> <<>>,
   hasFilingAddress |-> FALSE,
   filingAddress |-> [address |-> NoAddress]]

GovId(typeId, v) == [id |-> "gid", type |-> [id |-> typeId, name |-> "n"], value |-> v]

\* a worker with home address and SSN
WorkerFull(workerId, employerId) ==
  [id |-> workerId, firstName |-> "Ada", lastName |-> "Lovelace",
   employer |-> [id |-> employerId, businessName |-> "Acme"],
   personalInformation |->
     [dateOfBirth |-> "1990-01-01",
      hasHomeAddress |-> TRUE,
      homeAddress |-> [id |-> "addr", address |-> Address("Apt 2", "ca")],
      governmentIdentifiers |-> <<GovId("key:wrgovid:us:itin", "900"),
                                  GovId("key:wrgovid:us:ssn", "123-45-6789")>>]]

\* a worker without home address and without government identifiers
WorkerBare(workerId, employerId) ==
  [id |-> workerId, firstName |-> "Bob", lastName |-> "Stone",
   employer |-> [id |-> employerId, businessName |-> "Acme"],
   personalInformation |->
     [dateOfBirth |-> "1985-05-05",
      hasHomeAddress |-> FALSE,
      homeAddress |-> [id |-> "", address |-> NoAddress],
      governmentIdentifiers |-> <<>>]]

\* a GraphQL response as axios delivers it: HTTP status, errors array
\* present or not, data present or not
GraphQLResponse(status, hasErrors, hasData, data) ==
  [status |-> status, hasErrors |-> hasErrors, hasData |-> hasData, data |-> data]

\* data of the three query shapes; found = FALSE stands for a null entity
EntityData(found, entity) == [found |-> found, entity |-> entity]

GraphQLFailures(noData) ==
  {GraphQLResponse(500, FALSE, FALSE, noData),
   GraphQLResponse(401, FALSE, FALSE, noData),
   GraphQLResponse(200, TRUE, FALSE, noData),
   GraphQLResponse(200, FALSE, FALSE, noData)}

EmployerResponses(employerId) ==
  {GraphQLResponse(200, FALSE, TRUE, EntityData(TRUE, e)) :
     e \in {EmployerFull(employerId), EmployerNoLine2(employerId),
            EmployerBare(employerId)}}
  \cup {GraphQLResponse(200, FALSE, TRUE, EntityData(FALSE, EmployerBare("")))}
  \cup GraphQLFailures(EntityData(FALSE, EmployerBare("")))

WorkerResponses(workerId) ==
  {GraphQLResponse(200, FALSE, TRUE, EntityData(TRUE, w)) :
     w \in {WorkerFull(workerId, "er_1"), WorkerBare(workerId, "er_2")}}
  \cup {GraphQLResponse(200, FALSE, TRUE, EntityData(FALSE, WorkerBare("", "")))}
  \cup GraphQLFailures(EntityData(FALSE, WorkerBare("", "")))

\* employer { id workers { ... } }; hasWorkers = FALSE stands for workers: null
EmployerWorkers(employerId, hasWorkers, workers) ==
  [id |-> employerId, hasWorkers |-> hasWorkers, workers |-> workers]

EmployerWorkersResponses(employerId) ==
  {GraphQLResponse(200, FALSE, TRUE,
                   EntityData(TRUE, EmployerWorkers(employerId, TRUE, ws))) :
     ws \in {<<>>,
             <<WorkerFull("wr_1", employerId), WorkerBare("wr_2", employerId)>>,
             <<WorkerBare("wr_3", employerId)>>}}
  \cup {GraphQLResponse(200, FALSE, TRUE,
                        EntityData(TRUE, EmployerWorkers(employerId, FALSE, <<>>))),
        GraphQLResponse(200, FALSE, TRUE,
                        EntityData(FALSE, EmployerWorkers("", FALSE, <<>>)))}
  \cup GraphQLFailures(EntityData(FALSE, EmployerWorkers("", FALSE, <<>>)))

executeGraphQLQuery(authToken, response) ==
  IF ~authToken THEN Threw("configuration", FALSE)
  ELSE IF response.status = 401 THEN Threw("authentication", TRUE)
  ELSE IF response.status # 200 THEN Threw("unavailable", TRUE)
  ELSE IF response.hasErrors THEN Threw("graphql errors", TRUE)
  ELSE IF ~response.hasData THEN Threw("invalid", TRUE)
  ELSE Returned(response.data)

\* the least index of a non-empty set of indices: the first hit of a scan
MinOf(S) == CHOOSE x \in S : \A y \in S : x <= y

extractEin(taxesSetupByJurisdiction) ==
  LET Feins(jurisdiction) ==
        {i \in 1..Len(jurisdiction.taxIdentifiers) :
           /\ jurisdiction.taxIdentifiers[i].type.id = "key:taxid:us:fein"
           /\ ~Falsy(jurisdiction.taxIdentifiers[i].value)}
      withFein == {j \in 1..Len(taxesSetupByJurisdiction) :
                     Feins(taxesSetupByJurisdiction[j]) # {}}
  IN  IF withFein = {} THEN ""
      ELSE LET jurisdiction == taxesSetupByJurisdiction[MinOf(withFein)]
           IN  jurisdiction.taxIdentifiers[MinOf(Feins(jurisdiction))].value

formatAddress(hasAddress, address) ==
  IF ~hasAddress
  THEN [addressLine1 |-> "", addressLine2 |-> Undef, city |-> "", state |-> "",
        postalCode |-> ""]
  ELSE [addressLine1 |-> address.addressLine1,
        addressLine2 |-> address.addressLine2,
        city |-> address.locality,
        state |-> toUpperCase(address.administrativeArea),
        postalCode |-> address.postalCode]

fetchEmployerById(employerId, authToken, response) ==
  LET out == executeGraphQLQuery(authToken, response)
  IN  IF out.kind = "throw" THEN out
      ELSE IF ~out.value.found THEN Threw("type error", TRUE)
      ELSE LET employer == out.value.entity
               ein == extractEin(employer.taxesSetupByJurisdiction)
               addressInfo == formatAddress(employer.hasFilingAddress,
                                            employer.filingAddress.address)
           IN  Returned([employerId |-> employer.id,
                         businessName |-> employer.businessName,
                         legalName |-> employer.legalName,
                         ein |-> ein,
                         addressLine1 |-> addressInfo.addressLine1,
                         addressLine2 |-> addressInfo.addressLine2,
                         city |-> addressInfo.city,
                         state |-> addressInfo.state,
                         postalCode |-> addressInfo.postalCode])

extractSsn(governmentIdentifiers) ==
  LET ssns == {i \in 1..Len(governmentIdentifiers) :
                 /\ governmentIdentifiers[i].type.id = "key:wrgovid:us:ssn"
                 /\ ~Falsy(governmentIdentifiers[i].value)}
  IN  IF ssns = {} THEN Undef ELSE governmentIdentifiers[MinOf(ssns)].value

formatWorkerAddress(hasAddress, address) ==
  IF ~hasAddress
  THEN [addressLine1 |-> "", addressLine2 |-> Undef, city |-> "", state |-> "",
        postalCode |-> "", country |-> ""]
  ELSE [addressLine1 |-> address.addressLine1,
        addressLine2 |-> address.addressLine2,
        city |-> address.locality,
        state |-> toUpperCase(address.administrativeArea),
        postalCode |-> address.postalCode,
        country |-> address.country]

\* the WorkerInfo both worker queries build from one worker of the response
WorkerInfo(worker, employerId, employerName) ==
  LET ssn == extractSsn(worker.personalInformation.governmentIdentifiers)
      addressInfo == formatWorkerAddress(worker.personalInformation.hasHomeAddress,
                                         worker.personalInformation.homeAddress.address)
  IN  [workerId |-> worker.id,
       firstName |-> worker.firstName,
       lastName |-> worker.lastName,
       employerId |-> employerId,
       employerName |-> employerName,
       dateOfBirth |-> worker.personalInformation.dateOfBirth,
       addressLine1 |-> addressInfo.addressLine1,
       addressLine2 |-> addressInfo.addressLine2,
       city |-> addressInfo.city,
       state |-> addressInfo.state,
       postalCode |-> addressInfo.postalCode,
       country |-> addressInfo.country,
       ssn |-> ssn]

fetchWorkerById(workerId, authToken, response) ==
  LET out == executeGraphQLQuery(authToken, response)
  IN  IF out.kind = "throw" THEN out
      ELSE IF ~out.value.found THEN Threw("not found", TRUE)
      ELSE LET worker == out.value.entity
           IN  Returned(WorkerInfo(worker, worker.employer.id,
                                   worker.employer.businessName))

fetchWorkersByEmployerId(employerId, authToken, response) ==
  LET out == executeGraphQLQuery(authToken, response)
  IN  IF out.kind = "throw" THEN out
      ELSE IF ~out.value.found \/ ~out.value.entity.hasWorkers
           THEN Threw("not found", TRUE)
      ELSE LET employer == out.value.entity
           IN  Returned([i \in 1..Len(employer.workers) |->
                           WorkerInfo(employer.workers[i],
                                      OrElse(employer.id, ""),
                                      employer.workers[i].id)])

(***************************************************************************)
(* services/employer-info.ts                                               *)
(***************************************************************************)
EmployerRecord(employerInfo) ==
  [employer_id |-> employerInfo.employerId,
   business_name |-> employerInfo.businessName,
   ein |-> employerInfo.ein,
   address_line1 |-> employerInfo.addressLine1,
   address_line2 |-> employerInfo.addressLine2,
   city |-> employerInfo.city,
   state |-> employerInfo.state,
   postal_code |-> employerInfo.postalCode]

\* the for-loop over employerIds: one employer; the catch block rethrows
getEmployerInfo_fetch ==
  /\ frame.svc = "getEmployerInfo" /\ frame.spc = "keys"
  /\ frame.ki <= Len(frame.ids)
  /\ LET employerId == frame.ids[frame.ki]
     IN  \E response \in EmployerResponses(employerId) :
           LET out == fetchEmployerById(employerId, env.SALSA_AUTH_TOKEN, response)
           IN  /\ writes(log(LOG_MODE) \cup logDebug(LOG_MODE) \cup (IF out.sent THEN logTrace(LOG_MODE) ELSE {}) \cup (IF out.kind = "throw" THEN logError(LOG_MODE) ELSE {}))
               /\ calls' = Append(calls, CallEntry("fetchEmployerById", "SalsaGraphQL",
                                                   employerId, out))
               /\ IF out.kind = "throw" THEN ServiceThrows /\ UNCHANGED allRecords
                  ELSE /\ allRecords' = Append(allRecords, EmployerRecord(out.value))
                       /\ frame' = [frame EXCEPT !.ki = @ + 1]
                       /\ UNCHANGED <<svcCalls, thrown>>
  /\ UNCHANGED <<LOG_MODE, argv, env, mainpc, todo, exitCode, usage, files, handed, interceptors,
                 neo4jVars>>

\* after the loop: the records are written to employer-business-info.csv
getEmployerInfo_write ==
  /\ frame.svc = "getEmployerInfo" /\ frame.spc = "keys"
  /\ frame.ki > Len(frame.ids)
  /\ writes(log(LOG_MODE))
  /\ \E ok \in BOOLEAN :
       /\ writeRecords(OutputFile.getEmployerInfo, allRecords, ok)
       /\ IF ok THEN ServiceReturns ELSE ServiceThrows
  /\ UNCHANGED <<LOG_MODE, argv, env, mainpc, todo, exitCode, usage, allRecords, calls,
                 interceptors, neo4jVars>>

(***************************************************************************)
(* services/worker-info.ts                                                 *)
(***************************************************************************)
mapWorkerToRecord(worker) ==
  [employer_id |-> worker.employerId,
   worker_id |-> worker.workerId,
   first_name |-> worker.firstName,
   last_name |-> worker.lastName,
   date_of_birth |-> worker.dateOfBirth,
   address_line1 |-> OrElse(worker.addressLine1, ""),
   address_line2 |-> OrElse(worker.addressLine2, ""),
   city |-> OrElse(worker.city, ""),
   state |-> OrElse(worker.state, ""),
   postal_code |-> OrElse(worker.postalCode, ""),
   ssn |-> OrElse(worker.ssn, "")]

\* variant: the catch block of worker mode rethrows
getWorkerInfo_worker_rethrow ==
  /\ frame.svc = "getWorkerInfo" /\ frame.spc = "keys" /\ frame.idType = "worker"
  /\ frame.ki <= Len(frame.ids)
  /\ LET workerId == frame.ids[frame.ki]
     IN  \E response \in WorkerResponses(workerId) :
           LET out == fetchWorkerById(workerId, env.SALSA_AUTH_TOKEN, response)
           IN  /\ writes(log(LOG_MODE) \cup logDebug(LOG_MODE) \cup (IF out.sent THEN logTrace(LOG_MODE) ELSE {}) \cup (IF out.kind = "throw" THEN logError(LOG_MODE) ELSE {}))
               /\ calls' = Append(calls, CallEntry("fetchWorkerById", "SalsaGraphQL",
                                                   workerId, out))
               /\ IF out.kind = "throw" THEN ServiceThrows /\ UNCHANGED allRecords
                  ELSE /\ allRecords' = Append(allRecords, mapWorkerToRecord(out.value))
                       /\ frame' = [frame EXCEPT !.ki = @ + 1]
                       /\ UNCHANGED <<svcCalls, thrown>>
  /\ UNCHANGED <<LOG_MODE, argv, env, mainpc, todo, exitCode, usage, files,
                 handed, interceptors,
                 neo4jVars>>

\* worker mode: one worker id; the catch block logs and goes on
getWorkerInfo_worker ==
  /\ frame.svc = "getWorkerInfo" /\ frame.spc = "keys" /\ frame.idType = "worker"
  /\ frame.ki <= Len(frame.ids)
  /\ LET workerId == frame.ids[frame.ki]
     IN  \E response \in WorkerResponses(workerId) :
           LET out == fetchWorkerById(workerId, env.SALSA_AUTH_TOKEN, response)
           IN  /\ writes(log(LOG_MODE) \cup logDebug(LOG_MODE) \cup (IF out.sent THEN logTrace(LOG_MODE) ELSE {}) \cup (IF out.kind = "throw" THEN logError(LOG_MODE) ELSE {}))
               /\ calls' = Append(calls, CallEntry("fetchWorkerById", "SalsaGraphQL",
                                                   workerId, out))
               /\ allRecords' = IF out.kind = "throw" THEN allRecords
                                ELSE Append(allRecords, mapWorkerToRecord(out.value))
               /\ frame' = [frame EXCEPT !.ki = @ + 1]
  /\ UNCHANGED <<LOG_MODE, argv, env, mainpc, todo, exitCode, usage, svcCalls, thrown, files,
                 handed, interceptors,
                 neo4jVars>>

\* variant: the workers of an employer are put in front of the records
\* (unshift for push)
getWorkerInfo_employer_unshift ==
  /\ frame.svc = "getWorkerInfo" /\ frame.spc = "keys" /\ frame.idType # "worker"
  /\ frame.ki <= Len(frame.ids)
  /\ LET employerId == frame.ids[frame.ki]
     IN  \E response \in EmployerWorkersResponses(employerId) :
           LET out == fetchWorkersByEmployerId(employerId, env.SALSA_AUTH_TOKEN, response)
           IN  /\ writes(log(LOG_MODE) \cup logDebug(LOG_MODE) \cup (IF out.sent THEN logTrace(LOG_MODE) ELSE {}) \cup (IF out.kind = "throw" THEN logError(LOG_MODE) ELSE {}))
               /\ calls' = Append(calls, CallEntry("fetchWorkersByEmployerId",
                                                   "SalsaGraphQL", employerId, out))
               /\ allRecords' =
                    IF out.kind = "throw" THEN allRecords
                    ELSE [i \in 1..Len(out.value) |->
                            mapWorkerToRecord(out.value[i])] \o allRecords
               /\ frame' = [frame EXCEPT !.ki = @ + 1]
  /\ UNCHANGED <<LOG_MODE, argv, env, mainpc, todo, exitCode, usage, svcCalls, thrown, files,
                 handed, interceptors,
                 neo4jVars>>

\* employer mode: the workers of one employer id; the catch block logs and
\* goes on
getWorkerInfo_employer ==
  /\ frame.svc = "getWorkerInfo" /\ frame.spc = "keys" /\ frame.idType # "worker"
  /\ frame.ki <= Len(frame.ids)
  /\ LET employerId == frame.ids[frame.ki]
     IN  \E response \in EmployerWorkersResponses(employerId) :
           LET out == fetchWorkersByEmployerId(employerId, env.SALSA_AUTH_TOKEN, response)
           IN  /\ writes(log(LOG_MODE) \cup logDebug(LOG_MODE) \cup (IF out.sent THEN logTrace(LOG_MODE) ELSE {}) \cup (IF out.kind = "throw" THEN logError(LOG_MODE) ELSE {}))
               /\ calls' = Append(calls, CallEntry("fetchWorkersByEmployerId",
                                                   "SalsaGraphQL", employerId, out))
               /\ allRecords' =
                    IF out.kind = "throw" THEN allRecords
                    ELSE allRecords \o [i \in 1..Len(out.value) |->
                                          mapWorkerToRecord(out.value[i])]
               /\ frame' = [frame EXCEPT !.ki = @ + 1]
  /\ UNCHANGED <<LOG_MODE, argv, env, mainpc, todo, exitCode, usage, svcCalls, thrown, files,
                 handed, interceptors,
                 neo4jVars>>

\* after the loop: the records are written to worker-personal-info.csv; the
\* outer catch block rethrows
getWorkerInfo_write ==
  /\ frame.svc = "getWorkerInfo" /\ frame.spc = "keys"
  /\ frame.ki > Len(frame.ids)
  /\ \E ok \in BOOLEAN :
       /\ writes(log(LOG_MODE) \cup (IF ok THEN {} ELSE logError(LOG_MODE)))
       /\ writeRecords(OutputFile.getWorkerInfo, allRecords, ok)
       /\ IF ok THEN ServiceReturns ELSE ServiceThrows
  /\ UNCHANGED <<LOG_MODE, argv, env, mainpc, todo, exitCode, usage, allRecords, calls,
                 interceptors, neo4jVars>>

(***************************************************************************)
(* salsa-neo4j.ts: the driver, bank accounts and authorizers               *)
(***************************************************************************)
BankAccount(id, employerId, bankName, partyName) ==
  [id |-> id, employerId |-> employerId, bankName |-> bankName,
   accountNumber |-> "000123", routingNumber |-> "021000021",
   partyName |-> partyName, createdDate |-> "2023-03-03"]

\* the entity ids of the bank accounts linked to each employer
BankAccountIds ==
  [er_1 |-> <<"ba_1", "ba_2">>, er_2 |-> <<"ba_3", "ba_4">>,
   er_default |-> <<"ba_5", "ba_6">>]

\* the rows the two bank-account queries may return for an employer
ActiveBankAccountRows(employerId) ==
  {<<>>,
   <<BankAccount(BankAccountIds[employerId][1], employerId, "First Bank", "Acme"),
     BankAccount(BankAccountIds[employerId][2], employerId, Null, Null)>>}

DeletedBankAccountRows(employerId) ==
  {<<>>, <<BankAccount(Null, employerId, "Old Bank", Null)>>}

Authorizer(entityId, firstName, email) ==
  [entityId |-> entityId, authorizerFirstName |-> firstName,
   authorizerLastName |-> "Doe", authorizerEmail |-> email,
   clientIpAddress |-> "10.0.0.1"]

\* the rows the batch authorizer query may return for a list of ids
AuthorizerRows(employerBankAccountIds) ==
  {<<>>,
   <<Authorizer(employerBankAccountIds[1], "Ann", "ann@x.io"),
     Authorizer(employerBankAccountIds[1], "Zed", Null)>>}

\* session.run settles with rows or with an error
Neo4jResponses(rowSets) ==
  {[ok |-> TRUE, rows |-> r] : r \in rowSets} \cup {[ok |-> FALSE, rows |-> <<>>]}

\* variant: a driver is created on every call
initializeDriver_eager(password) ==
  IF ~password
  THEN [kind |-> "throw", driver |-> 0, created |-> FALSE]
  ELSE [kind |-> "ok", driver |-> driversCreated + 1, created |-> TRUE]

\* initializeDriver: the existing driver, or a new one when the password is
\* set, or a configuration error
initializeDriver(password) ==
  IF neo4jDriver # 0
  THEN [kind |-> "ok", driver |-> neo4jDriver, created |-> FALSE]
  ELSE IF ~password
       THEN [kind |-> "throw", driver |-> 0, created |-> FALSE]
       ELSE [kind |-> "ok", driver |-> driversCreated + 1, created |-> TRUE]

\* a query that has been sent and not yet settled
PendingEntry(fn, arg) ==
  [fn |-> fn, sys |-> "Neo4j", arg |-> arg, sent |-> TRUE, requests |-> 1,
   kind |-> "pending", err |-> "", value |-> <<>>]

\* a session opened by executeNeo4jQuery for the query logged at calls[c]
Session(c, q, d) == [call |-> c, q |-> q, driver |-> d, awaited |-> TRUE]

\* the part of executeNeo4jQuery after session.run settles: the rows, or the
\* error rethrown; the session is closed either way
executeNeo4jQuery(response) ==
  IF response.ok THEN Returned(response.rows) ELSE Threw("unavailable", TRUE)

Settle(c, out) ==
  [calls EXCEPT ![c].kind = out.kind, ![c].err = out.err, ![c].value = out.value,
                ![c].requests = out.requests]

\* variant: the driver handle is kept
closeNeo4jConnection_keep == neo4jDriver' = neo4jDriver

\* closeNeo4jConnection: close the driver, if any, and forget it
closeNeo4jConnection == neo4jDriver' = 0

\* fetchActiveBankAccounts / fetchDeletedBankAccounts: the rows with the flag
withIsDeleted(rows, flag) ==
  [i \in 1..Len(rows) |->
     [id |-> rows[i].id, employerId |-> rows[i].employerId,
      bankName |-> rows[i].bankName, accountNumber |-> rows[i].accountNumber,
      routingNumber |-> rows[i].routingNumber, partyName |-> rows[i].partyName,
      createdDate |-> rows[i].createdDate, isDeleted |-> flag]]

\* variant: the Map is keyed by the first name of the authorizer
authorizerMap_byName(results) ==
  LET keys == {results[i].authorizerFirstName : i \in {j \in 1..Len(results) :
                                              ~Falsy(results[j].entityId)}}
  IN  [k \in keys |->
         results[CHOOSE i \in 1..Len(results) :
                   /\ results[i].authorizerFirstName = k
                   /\ \A j \in (i + 1)..Len(results) :
                        results[j].authorizerFirstName # k]]

\* the Map fetchAuthorizerInfoBatch builds: a later row replaces an earlier
\* one of the same entityId
authorizerMap(results) ==
  LET keys == {results[i].entityId : i \in {j \in 1..Len(results) :
                                              ~Falsy(results[j].entityId)}}
  IN  [k \in keys |->
         results[CHOOSE i \in 1..Len(results) :
                   /\ results[i].entityId = k
                   /\ \A j \in (i + 1)..Len(results) : results[j].entityId # k]]

\* the part of fetchAuthorizerInfo after the query settles: the first row,
\* or null when there is no row or the query failed.  The value is a
\* sequence holding the row returned, empty for null.
fetchAuthorizerInfo(response) ==
  LET out == executeNeo4jQuery(response)
  IN  IF out.kind = "throw" THEN <<>>
      ELSE IF Len(out.value) = 0 THEN <<>>
      ELSE <<out.value[1]>>

\* the part of fetchAuthorizerInfoBatch after the query settles: the map, or
\* an empty map when the query failed
fetchAuthorizerInfoBatch(response) ==
  LET out == executeNeo4jQuery(response)
  IN  IF out.kind = "throw" THEN <<>> ELSE authorizerMap(out.value)

(***************************************************************************)
(* services/employer-bank-info.ts                                          *)
(***************************************************************************)
\* variant: a missing authorizer value is left as the empty string
EmployerBankRecord_empty(account, authorizerInfoMap) ==
  LET has == ~Falsy(account.id) /\ account.id \in DOMAIN authorizerInfoMap
      authInfo == authorizerInfoMap[account.id]
      authorizerFirstName == IF has THEN OrElse(authInfo.authorizerFirstName, "") ELSE ""
      authorizerLastName == IF has THEN OrElse(authInfo.authorizerLastName, "") ELSE ""
      authorizerEmail == IF has THEN OrElse(authInfo.authorizerEmail, "") ELSE ""
      clientIp == IF has THEN OrElse(authInfo.clientIpAddress, "") ELSE ""
  IN  [employer_id |-> account.employerId,
       bank_name |-> OrElse(account.bankName, ""),
       account_number |-> OrElse(account.accountNumber, ""),
       routing_number |-> OrElse(account.routingNumber, ""),
       party_name |-> OrElse(account.partyName, ""),
       authorizer_first_name |-> authorizerFirstName,
       authorizer_last_name |-> authorizerLastName,
       authorizer_email |-> authorizerEmail,
       client_ip |-> clientIp,
       id |-> account.id]

EmployerBankRecord(account, authorizerInfoMap) ==
  LET has == ~Falsy(account.id) /\ account.id \in DOMAIN authorizerInfoMap
      authInfo == authorizerInfoMap[account.id]
      authorizerFirstName == IF has THEN OrElse(authInfo.authorizerFirstName, "") ELSE ""
      authorizerLastName == IF has THEN OrElse(authInfo.authorizerLastName, "") ELSE ""
      authorizerEmail == IF has THEN OrElse(authInfo.authorizerEmail, "") ELSE ""
      clientIp == IF has THEN OrElse(authInfo.clientIpAddress, "") ELSE ""
  IN  [employer_id |-> account.employerId,
       bank_name |-> OrElse(account.bankName, ""),
       account_number |-> OrElse(account.accountNumber, ""),
       routing_number |-> OrElse(account.routingNumber, ""),
       party_name |-> OrElse(account.partyName, ""),
       authorizer_first_name |-> OrElse(authorizerFirstName, "null"),
       authorizer_last_name |-> OrElse(authorizerLastName, "null"),
       authorizer_email |-> OrElse(authorizerEmail, "null"),
       client_ip |-> OrElse(clientIp, "null"),
       id |-> account.id]

EmployerBankRecords(bankAccounts, authorizerInfoMap) ==
  [i \in 1..Len(bankAccounts) |-> EmployerBankRecord(bankAccounts[i], authorizerInfoMap)]

\* bankAccounts.filter(account => account.id).map(account => account.id)
RECURSIVE bankAccountIdsOf(_)
bankAccountIdsOf(bankAccounts) ==
  IF bankAccounts = <<>> THEN <<>>
  ELSE IF Falsy(Head(bankAccounts).id) THEN bankAccountIdsOf(Tail(bankAccounts))
  ELSE <<Head(bankAccounts).id>> \o bankAccountIdsOf(Tail(bankAccounts))

\* the frame when the loop goes on with the next employer id
NextKey ==
  [frame EXCEPT !.spc = "keys", !.ki = @ + 1, !.items = <<>>, !.index = 0,
                !.waiting = {}, !.got = IdleFrame.got]

\* the for-loop over employerIds: fetchEmployerBankAccounts starts the
\* active and the deleted query together (Promise.all); a configuration
\* error is caught by the per-employer catch block
getEmployerBankInfo_start ==
  /\ frame.svc = "getEmployerBankInfo" /\ frame.spc = "keys"
  /\ frame.ki <= Len(frame.ids)
  /\ LET employerId == frame.ids[frame.ki]
         init == initializeDriver(env.NEO4J_PASSWORD)
         n == Len(calls)
     IN  IF init.kind = "throw"
         THEN /\ writes(log(LOG_MODE) \cup logError(LOG_MODE))
              /\ calls' = calls \o
                   <<CallEntry("fetchActiveBankAccounts", "Neo4j", employerId,
                               Threw("configuration", FALSE)),
                     CallEntry("fetchDeletedBankAccounts", "Neo4j", employerId,
                               Threw("configuration", FALSE))>>
              /\ frame' = NextKey
              /\ UNCHANGED neo4jVars
         ELSE /\ writes(log(LOG_MODE) \cup (IF init.created THEN logDebug(LOG_MODE) ELSE {}) \cup logTrace(LOG_MODE))
              /\ neo4jDriver' = init.driver
              /\ driversCreated' = IF init.created THEN driversCreated + 1
                                   ELSE driversCreated
              /\ calls' = calls \o
                   <<PendingEntry("fetchActiveBankAccounts", employerId),
                     PendingEntry("fetchDeletedBankAccounts", employerId)>>
              /\ sessions' = sessions \cup {Session(n + 1, "active", init.driver),
                                            Session(n + 2, "deleted", init.driver)}
              /\ frame' = [frame EXCEPT !.spc = "accounts",
                                        !.waiting = {"active", "deleted"}]
  /\ UNCHANGED <<LOG_MODE, argv, env, mainpc, todo, exitCode, usage, svcCalls, allRecords, thrown,
                 files, handed, interceptors>>

\* variant: the accounts are joined in the order in which the two queries
\* settled
getEmployerBankInfo_accounts_race ==
  /\ frame.svc = "getEmployerBankInfo" /\ frame.spc = "accounts"
  /\ \E s \in sessions :
       /\ s.awaited /\ s.q \in frame.waiting
       /\ LET employerId == frame.ids[frame.ki]
              rowSets == IF s.q = "active" THEN ActiveBankAccountRows(employerId)
                         ELSE DeletedBankAccountRows(employerId)
          IN  \E response \in Neo4jResponses(rowSets) :
                LET out == executeNeo4jQuery(response)
                    got == [frame.got EXCEPT ![s.q] =
                              withIsDeleted(out.value, s.q = "deleted")]
                    bankAccounts == IF s.q = "active" THEN got.deleted \o got.active
                                    ELSE got.active \o got.deleted
                    bankAccountIds == bankAccountIdsOf(bankAccounts)
                    settled == Settle(s.call, out)
                    init == initializeDriver(env.NEO4J_PASSWORD)
                IN  IF out.kind = "throw"
                    THEN /\ writes(logError(LOG_MODE))
                         /\ calls' = settled
                         /\ sessions' = {[t EXCEPT !.awaited = FALSE] : t \in sessions \ {s}}
                         /\ frame' = NextKey
                         /\ UNCHANGED <<allRecords, neo4jDriver, driversCreated>>
                    ELSE IF frame.waiting # {s.q}
                    THEN /\ writes(logDebug(LOG_MODE))
                         /\ calls' = settled
                         /\ sessions' = sessions \ {s}
                         /\ frame' = [frame EXCEPT !.waiting = @ \ {s.q}, !.got = got]
                         /\ UNCHANGED <<allRecords, neo4jDriver, driversCreated>>
                    ELSE IF bankAccounts = <<>>
                    THEN /\ writes(logDebug(LOG_MODE) \cup log(LOG_MODE))
                         /\ calls' = settled
                         /\ sessions' = sessions \ {s}
                         /\ frame' = NextKey
                         /\ UNCHANGED <<allRecords, neo4jDriver, driversCreated>>
                    ELSE IF bankAccountIds = <<>> \/ init.kind = "throw"
                    THEN /\ writes(logDebug(LOG_MODE) \cup log(LOG_MODE))
                         /\ calls' = settled
                         /\ sessions' = sessions \ {s}
                         /\ allRecords' = allRecords \o EmployerBankRecords(bankAccounts, <<>>)
                         /\ frame' = NextKey
                         /\ UNCHANGED <<neo4jDriver, driversCreated>>
                    ELSE /\ writes(logDebug(LOG_MODE) \cup log(LOG_MODE) \cup logTrace(LOG_MODE))
                         /\ calls' = Append(settled,
                                            PendingEntry("fetchAuthorizerInfoBatch",
                                                         bankAccountIds))
                         /\ sessions' = (sessions \ {s})
                                          \cup {Session(Len(calls) + 1, "batch", init.driver)}
                         /\ neo4jDriver' = init.driver
                         /\ driversCreated' = IF init.created THEN driversCreated + 1
                                              ELSE driversCreated
                         /\ frame' = [frame EXCEPT !.spc = "authorizers",
                                                   !.waiting = {"batch"},
                                                   !.got = got,
                                                   !.items = bankAccounts]
                         /\ UNCHANGED allRecords
  /\ UNCHANGED <<LOG_MODE, argv, env, mainpc, todo, exitCode, usage, svcCalls, thrown, files,
                 handed, interceptors>>

\* one of the two awaited bank-account queries settles.  A failure rejects
\* Promise.all at once: the per-employer catch block goes on to the next
\* employer while the other query may still be in flight.  When both have
\* succeeded the accounts are joined and, if any has an id, the batch
\* authorizer query is started.
getEmployerBankInfo_accounts ==
  /\ frame.svc = "getEmployerBankInfo" /\ frame.spc = "accounts"
  /\ \E s \in sessions :
       /\ s.awaited /\ s.q \in frame.waiting
       /\ LET employerId == frame.ids[frame.ki]
              rowSets == IF s.q = "active" THEN ActiveBankAccountRows(employerId)
                         ELSE DeletedBankAccountRows(employerId)
          IN  \E response \in Neo4jResponses(rowSets) :
                LET out == executeNeo4jQuery(response)
                    got == [frame.got EXCEPT ![s.q] =
                              withIsDeleted(out.value, s.q = "deleted")]
                    bankAccounts == got.active \o got.deleted
                    bankAccountIds == bankAccountIdsOf(bankAccounts)
                    settled == Settle(s.call, out)
                    init == initializeDriver(env.NEO4J_PASSWORD)
                IN  IF out.kind = "throw"
                    THEN /\ writes(logError(LOG_MODE))
                         /\ calls' = settled
                         /\ sessions' = {[t EXCEPT !.awaited = FALSE] : t \in sessions \ {s}}
                         /\ frame' = NextKey
                         /\ UNCHANGED <<allRecords, neo4jDriver, driversCreated>>
                    ELSE IF frame.waiting # {s.q}
                    THEN /\ writes(logDebug(LOG_MODE))
                         /\ calls' = settled
                         /\ sessions' = sessions \ {s}
                         /\ frame' = [frame EXCEPT !.waiting = @ \ {s.q}, !.got = got]
                         /\ UNCHANGED <<allRecords, neo4jDriver, driversCreated>>
                    ELSE IF bankAccounts = <<>>
                    THEN /\ writes(logDebug(LOG_MODE) \cup log(LOG_MODE))
                         /\ calls' = settled
                         /\ sessions' = sessions \ {s}
                         /\ frame' = NextKey
                         /\ UNCHANGED <<allRecords, neo4jDriver, driversCreated>>
                    ELSE IF bankAccountIds = <<>> \/ init.kind = "throw"
                    THEN /\ writes(logDebug(LOG_MODE) \cup log(LOG_MODE))
                         /\ calls' = settled
                         /\ sessions' = sessions \ {s}
                         /\ allRecords' = allRecords \o EmployerBankRecords(bankAccounts, <<>>)
                         /\ frame' = NextKey
                         /\ UNCHANGED <<neo4jDriver, driversCreated>>
                    ELSE /\ writes(logDebug(LOG_MODE) \cup log(LOG_MODE) \cup logTrace(LOG_MODE))
                         /\ calls' = Append(settled,
                                            PendingEntry("fetchAuthorizerInfoBatch",
                                                         bankAccountIds))
                         /\ sessions' = (sessions \ {s})
                                          \cup {Session(Len(calls) + 1, "batch", init.driver)}
                         /\ neo4jDriver' = init.driver
                         /\ driversCreated' = IF init.created THEN driversCreated + 1
                                              ELSE driversCreated
                         /\ frame' = [frame EXCEPT !.spc = "authorizers",
                                                   !.waiting = {"batch"},
                                                   !.got = got,
                                                   !.items = bankAccounts]
                         /\ UNCHANGED allRecords
  /\ UNCHANGED <<LOG_MODE, argv, env, mainpc, todo, exitCode, usage, svcCalls, thrown, files,
                 handed, interceptors>>

\* variant: a failed batch authorizer query is thrown on to the per-employer
\* catch block
getEmployerBankInfo_authorizers_rethrow ==
  /\ frame.svc = "getEmployerBankInfo" /\ frame.spc = "authorizers"
  /\ \E s \in sessions :
       /\ s.awaited /\ s.q = "batch"
       /\ \E response \in Neo4jResponses(AuthorizerRows(calls[s.call].arg)) :
            LET authorizerInfoMap == fetchAuthorizerInfoBatch(response)
            IN  /\ writes(log(LOG_MODE) \cup (IF response.ok THEN logDebug(LOG_MODE) ELSE logError(LOG_MODE)))
                /\ calls' = Settle(s.call,
                                   IF response.ok THEN Returned(authorizerInfoMap)
                                   ELSE Threw("unavailable", TRUE))
                /\ sessions' = sessions \ {s}
                /\ allRecords' = IF response.ok
                                 THEN allRecords \o
                                        EmployerBankRecords(frame.items, authorizerInfoMap)
                                 ELSE allRecords
                /\ frame' = NextKey
  /\ UNCHANGED <<LOG_MODE, argv, env, mainpc, todo, exitCode, usage, svcCalls, thrown, files,
                 handed, interceptors, neo4jDriver, driversCreated>>

\* the batch authorizer query settles: one record per bank account of the
\* employer, then on to the next employer
getEmployerBankInfo_authorizers ==
  /\ frame.svc = "getEmployerBankInfo" /\ frame.spc = "authorizers"
  /\ \E s \in sessions :
       /\ s.awaited /\ s.q = "batch"
       /\ \E response \in Neo4jResponses(AuthorizerRows(calls[s.call].arg)) :
            LET authorizerInfoMap == fetchAuthorizerInfoBatch(response)
            IN  /\ writes(log(LOG_MODE) \cup (IF response.ok THEN logDebug(LOG_MODE) ELSE logError(LOG_MODE)))
                /\ calls' = Settle(s.call,
                                   IF response.ok THEN Returned(authorizerInfoMap)
                                   ELSE Threw("unavailable", TRUE))
                /\ sessions' = sessions \ {s}
                /\ allRecords' = allRecords \o
                                   EmployerBankRecords(frame.items, authorizerInfoMap)
                /\ frame' = NextKey
  /\ UNCHANGED <<LOG_MODE, argv, env, mainpc, todo, exitCode, usage, svcCalls, thrown, files,
                 handed, interceptors, neo4jDriver, driversCreated>>

\* variant: no early return, the record set is written even when empty
getEmployerBankInfo_finish_always ==
  /\ frame.svc = "getEmployerBankInfo" /\ frame.spc = "keys"
  /\ frame.ki > Len(frame.ids)
  /\ \E ok \in BOOLEAN :
       /\ writeRecords(OutputFile.getEmployerBankInfo, allRecords, ok)
       /\ IF ok THEN ServiceReturns ELSE ServiceThrows
  /\ writes(log(LOG_MODE) \cup (IF neo4jDriver # 0 THEN logDebug(LOG_MODE) ELSE {}))
  /\ closeNeo4jConnection
  /\ UNCHANGED <<LOG_MODE, argv, env, mainpc, todo, exitCode, usage, allRecords, calls,
                 interceptors, driversCreated, sessions>>

\* after the loop: return early when there is no record, else write
\* employer-bank-info.csv; the finally block closes the driver
getEmployerBankInfo_finish ==
  /\ frame.svc = "getEmployerBankInfo" /\ frame.spc = "keys"
  /\ frame.ki > Len(frame.ids)
  /\ IF allRecords = <<>>
     THEN /\ ServiceReturns
          /\ UNCHANGED <<files, handed>>
     ELSE \E ok \in BOOLEAN :
            /\ writeRecords(OutputFile.getEmployerBankInfo, allRecords, ok)
            /\ IF ok THEN ServiceReturns ELSE ServiceThrows
  /\ writes(log(LOG_MODE) \cup (IF neo4jDriver # 0 THEN logDebug(LOG_MODE) ELSE {}))
  /\ closeNeo4jConnection
  /\ UNCHANGED <<LOG_MODE, argv, env, mainpc, todo, exitCode, usage, allRecords, calls,
                 interceptors, driversCreated, sessions>>

\* a query nobody awaits any more settles and its session is closed
neo4j_unawaited ==
  /\ exitCode # 1
  /\ \E s \in sessions :
       /\ ~s.awaited
       /\ calls' = [calls EXCEPT ![s.call].kind = "unawaited"]
       /\ sessions' = sessions \ {s}
       /\ \E ok \in BOOLEAN : writes(IF ok THEN logDebug(LOG_MODE) ELSE logError(LOG_MODE))
  /\ UNCHANGED <<LOG_MODE, argv, env, mainpc, todo, exitCode, usage, svcCalls, frame, allRecords,
                 thrown, files, handed, interceptors, neo4jDriver, driversCreated>>

(***************************************************************************)
(* services/worker-bank-info.ts                                            *)
(***************************************************************************)
WorkerBankAccount(employerId, workerId, bankName, isDeleted) ==
  [employerId |-> employerId, workerId |-> workerId, bankName |-> bankName,
   accountNumber |-> "000456", routingNumber |-> "021000021",
   partyName |-> Null, createdDate |-> "2023-04-04", isDeleted |-> isDeleted]

\* the rows the worker bank-account query may return for a list of employers
WorkerBankAccountRows(employerIds) ==
  {<<>>,
   <<WorkerBankAccount(employerIds[1], "wr_1", "First Bank", FALSE),
     WorkerBankAccount(employerIds[Len(employerIds)], "wr_2", Null, TRUE)>>}

\* fetchWorkerBankAccounts after its query settles: the rows, or the error
fetchWorkerBankAccounts(response) == executeNeo4jQuery(response)

WorkerBankRecord(account) ==
  [employer_id |-> OrElse(account.employerId, ""),
   worker_id |-> OrElse(account.workerId, ""),
   bank_name |-> OrElse(account.bankName, ""),
   account_number |-> OrElse(account.accountNumber, ""),
   routing_number |-> OrElse(account.routingNumber, ""),
   party_name |-> OrElse(account.partyName, ""),
   is_deleted |-> IF account.isDeleted THEN "Yes" ELSE "No",
   created_date |-> OrElse(account.createdDate, "")]

\* fetchWorkerBankAccounts is called with all employer ids at once; a
\* configuration error is rethrown by the catch block, the finally block
\* closes the driver
getWorkerBankInfo_start ==
  /\ frame.svc = "getWorkerBankInfo" /\ frame.spc = "keys"
  /\ LET init == initializeDriver(env.NEO4J_PASSWORD)
     IN  IF init.kind = "throw"
         THEN /\ writes(log(LOG_MODE) \cup logError(LOG_MODE))
              /\ calls' = Append(calls, CallEntry("fetchWorkerBankAccounts", "Neo4j",
                                                  frame.ids,
                                                  Threw("configuration", FALSE)))
              /\ ServiceThrows
              /\ closeNeo4jConnection
              /\ UNCHANGED <<allRecords, driversCreated, sessions>>
         ELSE /\ writes(log(LOG_MODE) \cup (IF init.created THEN logDebug(LOG_MODE) ELSE {}) \cup logTrace(LOG_MODE))
              /\ neo4jDriver' = init.driver
              /\ driversCreated' = IF init.created THEN driversCreated + 1
                                   ELSE driversCreated
              /\ calls' = Append(calls, PendingEntry("fetchWorkerBankAccounts", frame.ids))
              /\ sessions' = sessions \cup {Session(Len(calls) + 1, "workers", init.driver)}
              /\ frame' = [frame EXCEPT !.spc = "workers", !.waiting = {"workers"}]
              /\ UNCHANGED <<allRecords, svcCalls, thrown>>
  /\ UNCHANGED <<LOG_MODE, argv, env, mainpc, todo, exitCode, usage, files, handed, interceptors>>

\* the query settles: on an error the catch block rethrows; with no rows the
\* service returns early; else the mapped rows are written to
\* worker-bank-info.csv; the finally block closes the driver
getWorkerBankInfo_accounts ==
  /\ frame.svc = "getWorkerBankInfo" /\ frame.spc = "workers"
  /\ \E s \in sessions :
       /\ s.awaited /\ s.q = "workers"
       /\ \E response \in Neo4jResponses(WorkerBankAccountRows(frame.ids)) :
            LET out == fetchWorkerBankAccounts(response)
                workerBankAccounts == out.value
            IN  /\ calls' = Settle(s.call, out)
                /\ sessions' = sessions \ {s}
                /\ IF out.kind = "throw"
                   THEN ServiceThrows /\ UNCHANGED <<allRecords, files, handed>> /\ writes(logError(LOG_MODE) \cup logDebug(LOG_MODE))
                   ELSE IF workerBankAccounts = <<>>
                   THEN ServiceReturns /\ UNCHANGED <<allRecords, files, handed>> /\ writes(logDebug(LOG_MODE) \cup log(LOG_MODE))
                   ELSE \E ok \in BOOLEAN :
                          /\ writes(logDebug(LOG_MODE) \cup log(LOG_MODE) \cup (IF ok THEN {} ELSE logError(LOG_MODE)))
                          /\ allRecords' = [i \in 1..Len(workerBankAccounts) |->
                                              WorkerBankRecord(workerBankAccounts[i])]
                          /\ writeRecords(OutputFile.getWorkerBankInfo, allRecords', ok)
                          /\ IF ok THEN ServiceReturns ELSE ServiceThrows
  /\ closeNeo4jConnection
  /\ UNCHANGED <<LOG_MODE, argv, env, mainpc, todo, exitCode, usage, interceptors, driversCreated>>

(***************************************************************************)
(* The program                                                             *)
(***************************************************************************)
Init ==
  /\ argv \in ArgvSet
  /\ env \in EnvSet
  /\ LOG_MODE \in {OrElse(raw, "INFO") : raw \in RawLogModes}
  \* bound: a log mode other than the default is run with every credential set
  /\ env = AllSet \/ LOG_MODE = "INFO"
  /\ console = {}
  /\ mainpc = "start"
  /\ todo = <<>>
  /\ exitCode = -1
  /\ usage = FALSE
  /\ svcCalls = <<>>
  /\ frame = IdleFrame
  /\ allRecords = <<>>
  /\ thrown = FALSE
  /\ files = [f \in FileNames |-> [exists |-> FALSE, rows |-> <<>>]]
  /\ handed = [f \in FileNames |-> <<>>]
  /\ calls = <<>>
  /\ interceptors = [request |-> 2, response |-> 2]
  /\ neo4jDriver = 0
  /\ driversCreated = 0
  /\ sessions = {}

Next ==
  \/ main_start
  \/ main_call
  \/ main_return
  \/ main_catch
  \/ getIncreaseTransactions_fetch
  \/ getIncreaseTransactions_order
  \/ getIncreaseTransactions_write
  \/ getEmployerInfo_fetch
  \/ getEmployerInfo_write
  \/ getWorkerInfo_worker
  \/ getWorkerInfo_employer
  \/ getWorkerInfo_write
  \/ getEmployerBankInfo_start
  \/ getEmployerBankInfo_accounts
  \/ getEmployerBankInfo_authorizers
  \/ getEmployerBankInfo_finish
  \/ getWorkerBankInfo_start
  \/ getWorkerBankInfo_accounts
  \/ neo4j_unawaited

Spec == Init /\ [][Next]_vars

(***************************************************************************)
(* Properties                                                              *)
(***************************************************************************)
\* the adapter functions a service fetches its keys with
PrimaryFns(s) ==
  CASE s = "getIncreaseTransactions" -> {"fetchPaymentOrders"}
    [] s = "getEmployerInfo" -> {"fetchEmployerById"}
    [] s = "getEmployerBankInfo" -> {"fetchActiveBankAccounts"}
    [] s = "getWorkerBankInfo" -> {"fetchWorkerBankAccounts"}
    [] s = "getWorkerInfo" -> {"fetchWorkerById", "fetchWorkersByEmployerId"}

\* the positions in a call log of the primary fetches of service s
PrimaryCalls(entries, s) == {i \in 1..Len(entries) : entries[i].fn \in PrimaryFns(s)}

\* the invocations of service s that main has made
Invocations(s) == {i \in 1..Len(svcCalls) : svcCalls[i].svc = s}

\* With call log `log` and open sessions `open`, the running service s has
\* fetched every one of its keys (getWorkerBankInfo fetches all its keys with
\* one call) and awaits none of these fetches any more.
AllKeysFetched(entries, open, s) ==
  /\ \A t \in open : ~t.awaited
  /\ Cardinality(PrimaryCalls(entries, s)) =
       IF s = "getWorkerBankInfo" THEN 1 ELSE Len(frame.ids)

\* a service that threw has left no output file behind
NoFileAfterThrow ==
  \A s \in Services :
    (\E i \in Invocations(s) : svcCalls[i].outcome = "threw")
      => ~files[OutputFile[s]].exists

\* C1: all-or-nothing file emission.  A step that passes records to the CSV
\* writer of a service's output file, or changes that file, is taken by that
\* service after every one of its keys has been fetched; and a service out
\* of which an error propagated has written no output file.
C1_AllOrNothing ==
  [][/\ \A s \in Services :
          (handed'[OutputFile[s]] # handed[OutputFile[s]]
             \/ files'[OutputFile[s]] # files[OutputFile[s]])
            => frame.svc = s /\ AllKeysFetched(calls', sessions', s)
     /\ NoFileAfterThrow']_vars

\* C1 witness: getIncreaseTransactions threw after it had accumulated a
\* record, and its output file does not exist
C1_Witness ==
  /\ \E i \in Invocations("getIncreaseTransactions") : svcCalls[i].outcome = "threw"
  /\ allRecords # <<>>
  /\ frame.svc = "none" /\ Len(svcCalls) = 1
  /\ handed[OutputFile.getIncreaseTransactions] = <<>>
  /\ ~files[OutputFile.getIncreaseTransactions].exists

\* C9: the process exits with code 1 exactly when an error propagated out of
\* a service; a normal completion and every usage print exit with code 0.
C9_ExitCode ==
  /\ mainpc = "exited" <=> exitCode \in {0, 1}
  /\ mainpc = "exited" =>
       /\ exitCode = 1 <=> \E i \in 1..Len(svcCalls) : svcCalls[i].outcome = "threw"
       /\ usage => exitCode = 0
       /\ (\A i \in 1..Len(svcCalls) : svcCalls[i].outcome = "returned") => exitCode = 0

\* C9 witness: a service threw and the process exited with code 1
C9_Witness ==
  /\ mainpc = "exited" /\ exitCode = 1
  /\ svcCalls # <<>> /\ svcCalls[Len(svcCalls)].outcome = "threw"

\* the command line names no command of the program
NoKnownCommand == Len(argv) = 0 \/ argv[1] \notin (Commands \cup {"run-all"})

\* C10: for an unknown command, and when no command is given, main prints
\* the usage text, invokes no service, makes no adapter call, writes no
\* file, and exits with code 0.
C10_UnknownCommand ==
  NoKnownCommand =>
    /\ svcCalls = <<>> /\ todo = <<>> /\ frame.svc = "none"
    /\ calls = <<>>
    /\ \A f \in FileNames : handed[f] = <<>> /\ ~files[f].exists
    /\ mainpc # "start" => usage
    /\ exitCode \in {-1, 0}
    /\ mainpc = "exited" => exitCode = 0

\* C10 witness: an unknown command has run to its exit
C10_Witness ==
  /\ Len(argv) > 0 /\ argv[1] = "bogus"
  /\ mainpc = "exited" /\ usage /\ exitCode = 0

\* the services that return before the CSV writer when they have no record
ReturnsEarly == {"getEmployerBankInfo", "getWorkerBankInfo"}

\* sequence a is a prefix of sequence b
IsPrefix(a, b) == Len(a) <= Len(b) /\ SubSeq(b, 1, Len(a)) = a

\* the last service invocation has completed without an uncaught error
LastReturned ==
  /\ svcCalls # <<>> /\ svcCalls[Len(svcCalls)].outcome = "returned"
  /\ frame.svc = "none"

RECURSIVE Flatten(_)
Flatten(ss) == IF ss = <<>> THEN <<>> ELSE Head(ss) \o Flatten(Tail(ss))

\* the payment order has a transfer-id reference, and the first such
\* reference names a transfer
Joined(order) ==
  \E i \in 1..Len(order.reference_numbers) :
    /\ order.reference_numbers[i].reference_number_type = "bnk_dev_transfer_id"
    /\ order.reference_numbers[i].reference_number # ""
    /\ \A j \in 1..(i - 1) :
         order.reference_numbers[j].reference_number_type # "bnk_dev_transfer_id"

\* the reference number of the first transfer-id reference of a joined order
FirstTransferId(order) ==
  LET refs == order.reference_numbers
      first == CHOOSE i \in 1..Len(refs) :
                 /\ refs[i].reference_number_type = "bnk_dev_transfer_id"
                 /\ \A j \in 1..(i - 1) :
                      refs[j].reference_number_type # "bnk_dev_transfer_id"
  IN  refs[first].reference_number

\* the primary fetches of service s in the call log, in call order
PrimarySeq(s) ==
  LET IsPrimary(c) == c.fn \in PrimaryFns(s) IN SelectSeq(calls, IsPrimary)

\* the ACH-transfer fetches in the call log, in call order
ACHSeq ==
  LET IsACH(c) == c.fn = "fetchACHTransfer" IN SelectSeq(calls, IsACH)

\* the (payroll run id, payment order) pairs that a sequence of
\* fetchPaymentOrders calls joins, in call order and in returned order
JoinedPairs(P) ==
  Flatten([i \in 1..Len(P) |->
             LET joined == SelectSeq(P[i].value, Joined)
             IN  [j \in 1..Len(joined) |-> [run |-> P[i].arg, order |-> joined[j]]]])

\* the records that the primary fetches P of service s contribute, key by
\* key, each key's records in the order the adapter returned them
Contributions(s, idType, P) ==
  CASE s = "getIncreaseTransactions" ->
         LET pairs == JoinedPairs(P)
         IN  [n \in 1..Len(pairs) |->
                IncreaseRecord(pairs[n].run, pairs[n].order, ACHSeq[n].value)]
    [] s = "getEmployerInfo" ->
         [i \in 1..Len(P) |-> EmployerRecord(P[i].value)]
    [] s = "getWorkerInfo" ->
         Flatten([i \in 1..Len(P) |->
                    IF P[i].kind = "throw" THEN <<>>
                    ELSE IF idType = "worker" THEN <<mapWorkerToRecord(P[i].value)>>
                    ELSE [j \in 1..Len(P[i].value) |-> mapWorkerToRecord(P[i].value[j])]])

\* the services that fetch key by key and write the records of every key
KeyedServices == {"getIncreaseTransactions", "getEmployerInfo", "getWorkerInfo"}

\* C3: the keys of a service are fetched in the order supplied, once per
\* occurrence (a key supplied twice is fetched twice); the record sequence
\* a completed service has written is the concatenation, in input-key
\* order, of each key's records in the order the primary adapter returned
\* them.
C3_KeyOrder ==
  svcCalls # <<>> =>
    LET c == svcCalls[Len(svcCalls)]
        P == PrimarySeq(c.svc)
        args == [i \in 1..Len(P) |-> P[i].arg]
    IN  /\ c.svc \in KeyedServices \cup {"getEmployerBankInfo"} =>
             /\ IsPrefix(args, c.ids)
             /\ LastReturned => args = c.ids
        /\ c.svc \in KeyedServices /\ LastReturned =>
             handed[OutputFile[c.svc]] = <<Contributions(c.svc, c.idType, P)>>

\* C3 witness: getWorkerInfo was given the same employer id twice, fetched
\* it twice with different answers and wrote the workers of both answers
C3_Witness ==
  /\ LastReturned /\ svcCalls[Len(svcCalls)].svc = "getWorkerInfo"
  /\ svcCalls[Len(svcCalls)].idType # "worker"
  /\ Len(svcCalls[Len(svcCalls)].ids) = 2
  /\ svcCalls[Len(svcCalls)].ids[1] = svcCalls[Len(svcCalls)].ids[2]
  /\ Len(calls) = 2 /\ calls[1].kind = "ok" /\ calls[2].kind = "ok"
  /\ calls[1].value # <<>> /\ calls[2].value # <<>>
  /\ calls[1].value # calls[2].value
  /\ Len(handed[OutputFile.getWorkerInfo][1]) = Len(calls[1].value) + Len(calls[2].value)

\* getIncreaseTransactions is at a payment order without ACH transfer id
AtOrderWithoutTransferId ==
  /\ frame.svc = "getIncreaseTransactions" /\ frame.spc = "orders"
  /\ extractACHTransferId(frame.items[frame.index]) = Null

\* C4: when getIncreaseTransactions deals with a payment order for which
\* extractACHTransferId returns null, it makes no adapter call, appends no
\* record, raises no error and goes on with the next payment order (with
\* the next payroll run id after the last order).
C4_SkipWithoutTransferId ==
  [][AtOrderWithoutTransferId /\ frame' # frame =>
       /\ calls' = calls
       /\ allRecords' = allRecords
       /\ thrown' = thrown /\ svcCalls' = svcCalls
       /\ frame'.svc = "getIncreaseTransactions"
       /\ IF frame.index < Len(frame.items)
          THEN frame' = [frame EXCEPT !.index = frame.index + 1]
          ELSE frame'.spc = "keys" /\ frame'.ki = frame.ki + 1]_vars

\* C4 witness: a run over one payroll run id whose payment orders were one
\* with and then one without a transfer id returned with a single
\* ACH-transfer fetch and a single record
C4_Witness ==
  /\ LastReturned /\ svcCalls[Len(svcCalls)].svc = "getIncreaseTransactions"
  /\ Len(calls) = 2
  /\ calls[1].fn = "fetchPaymentOrders" /\ calls[1].value = <<po_a, po_b>>
  /\ calls[2].fn = "fetchACHTransfer" /\ calls[2].arg = "ach_1"
  /\ Len(allRecords) = 1
  /\ handed[OutputFile.getIncreaseTransactions] = <<allRecords>>

\* the payment order has a transfer-id reference
HasTransferIdReference(order) ==
  \E i \in 1..Len(order.reference_numbers) :
    order.reference_numbers[i].reference_number_type = "bnk_dev_transfer_id"

\* the number of payment orders satisfying Test over all fetched payroll runs
OrderCount(P, Test(_)) ==
  Len(Flatten([i \in 1..Len(P) |-> SelectSeq(P[i].value, Test)]))

\* a getIncreaseTransactions run in which every fetch succeeded has completed
IncreaseRunSucceeded ==
  /\ LastReturned /\ svcCalls[Len(svcCalls)].svc = "getIncreaseTransactions"
  /\ \A i \in 1..Len(calls) : calls[i].kind = "ok"

\* C5 as stated: in a getIncreaseTransactions run where every fetch
\* succeeds, the number of records equals the number of payment orders that
\* have a transfer-id reference.
C5_Original ==
  IncreaseRunSucceeded =>
    Len(allRecords) = OrderCount(PrimarySeq("getIncreaseTransactions"),
                                 HasTransferIdReference)

\* C5, amended: in a getIncreaseTransactions run where every fetch succeeds,
\* the number of records equals the number of payment orders (over all
\* payroll run ids) whose first transfer-id reference has a non-empty
\* reference number; the n-th record carries the payroll run id the n-th
\* such order was fetched under, that order's direction, effective_date and
\* amount unchanged, and the transaction_id that the ACH-transfer fetch for
\* that order's transfer id returned.
C5_JoinedRecords ==
  IncreaseRunSucceeded =>
    LET pairs == JoinedPairs(PrimarySeq("getIncreaseTransactions"))
    IN  /\ Len(allRecords) = Len(pairs)
        /\ Len(ACHSeq) = Len(pairs)
        /\ handed[OutputFile.getIncreaseTransactions] = <<allRecords>>
        /\ \A n \in 1..Len(pairs) :
             /\ allRecords[n].payroll_run_id = pairs[n].run
             /\ allRecords[n].direction = pairs[n].order.direction
             /\ allRecords[n].effective_date = pairs[n].order.effective_date
             /\ allRecords[n].amount = pairs[n].order.amount
             /\ ACHSeq[n].arg = FirstTransferId(pairs[n].order)
             /\ allRecords[n].transaction_id = ACHSeq[n].value.transaction_id
             /\ allRecords[n].transaction_id = TransactionOf[ACHSeq[n].arg]

\* C5 witness: a successful run that met an order whose transfer-id
\* reference is neither first nor unique and wrote two records
C5_Witness ==
  /\ IncreaseRunSucceeded
  /\ \E i \in 1..Len(calls) : calls[i].fn = "fetchPaymentOrders"
                                /\ calls[i].value = <<po_c, po_a>>
  /\ Len(allRecords) >= 2
  /\ allRecords[1].transaction_id = "txn_2"

\* the record has a value for every field of the CSV schema of service s
Populated(s, r) ==
  /\ DOMAIN r = Header[s]
  /\ \A f \in Header[s] :
       IF f = "amount" THEN r[f] \in Nat ELSE r[f] \notin {Undef, Null}

\* C6: every record a service has appended has a value for every field id
\* of the service's CSV schema; no schema field is absent, undefined or null.
C6_AllFieldsPopulated ==
  /\ svcCalls # <<>> =>
       \A n \in 1..Len(allRecords) :
         Populated(svcCalls[Len(svcCalls)].svc, allRecords[n])
  /\ \A s \in Services :
       \A k \in 1..Len(handed[OutputFile[s]]) :
         \A n \in 1..Len(handed[OutputFile[s]][k]) :
           Populated(s, handed[OutputFile[s]][k][n])

\* the credential each external system requires
CredentialOf ==
  [ModernTreasury |-> "MODERN_TREASURY", Increase |-> "INCREASE_API_KEY",
   SalsaGraphQL |-> "SALSA_AUTH_TOKEN", Neo4j |-> "NEO4J_PASSWORD"]

\* C7: once an adapter has raised a configuration error, the error has
\* propagated out of the service (the service is no longer running and has
\* thrown), no adapter call for a further key follows, and the process
\* exits with code 1.
C7_ConfigurationAborts ==
  \A i \in 1..Len(calls) :
    calls[i].err = "configuration" =>
      /\ frame.svc = "none" /\ thrown
      /\ svcCalls[Len(svcCalls)].outcome = "threw"
      /\ \A j \in (i + 1)..Len(calls) :
           calls[j].err = "configuration" /\ calls[j].arg = calls[i].arg
      /\ mainpc = "exited" => exitCode = 1

\* C8: no outbound request is ever issued to an external system whose
\* credential is missing; the adapter raises a configuration error instead.
C8_NoRequestWithoutCredential ==
  \A i \in 1..Len(calls) :
    ~env[CredentialOf[calls[i].sys]] =>
      ~calls[i].sent /\ calls[i].err = "configuration"

\* the services that use the graph database
GraphServices == {"getEmployerBankInfo", "getWorkerBankInfo"}

AuthorizerFields ==
  {"authorizer_first_name", "authorizer_last_name", "authorizer_email", "client_ip"}

\* getEmployerBankInfo takes the step in which its batch authorizer query
\* settles
BatchSettles ==
  /\ frame.svc = "getEmployerBankInfo" /\ frame.spc = "authorizers"
  /\ frame' # frame

\* the position in the call log of the batch authorizer query in flight
PendingBatch ==
  CHOOSE i \in 1..Len(calls) :
    calls[i].fn = "fetchAuthorizerInfoBatch" /\ calls[i].kind = "pending"

\* C12: fetchAuthorizerInfoBatch returns an empty map when its query fails;
\* in the step in which the batch authorizer query settles, whether it
\* failed or left bank-account ids out of the map, getEmployerBankInfo
\* raises no error, appends exactly one record for every bank account of
\* the employer (with the literal "null" in the authorizer fields when the
\* query failed) and goes on with the next employer.
C12_BatchFailureTolerated ==
  [][/\ \A rows \in AuthorizerRows(<<"ba_1">>) :
          fetchAuthorizerInfoBatch([ok |-> FALSE, rows |-> rows]) = <<>>
     /\ BatchSettles =>
          /\ thrown' = thrown /\ svcCalls' = svcCalls
          /\ frame'.svc = "getEmployerBankInfo" /\ frame'.spc = "keys"
          /\ frame'.ki = frame.ki + 1
          /\ IsPrefix(allRecords, allRecords')
          /\ Len(allRecords') = Len(allRecords) + Len(frame.items)
          /\ \A n \in 1..Len(frame.items) :
               allRecords'[Len(allRecords) + n].id = frame.items[n].id
          /\ calls'[PendingBatch].kind = "throw" =>
               \A n \in (Len(allRecords) + 1)..Len(allRecords') :
                 \A f \in AuthorizerFields : allRecords'[n][f] = "null"]_vars

\* C12 witness: the batch authorizer query of an employer with three bank
\* accounts failed, and the service returned after writing three records
C12_Witness ==
  /\ LastReturned /\ svcCalls[Len(svcCalls)].svc = "getEmployerBankInfo"
  /\ Len(calls) = 3
  /\ calls[3].fn = "fetchAuthorizerInfoBatch" /\ calls[3].kind = "throw"
  /\ Len(allRecords) = 3
  /\ handed[OutputFile.getEmployerBankInfo] = <<allRecords>>

\* the graph-database calls of getEmployerBankInfo in the call log, in call
\* order
BankLog ==
  LET IsBank(c) == c.fn \in {"fetchActiveBankAccounts", "fetchDeletedBankAccounts",
                             "fetchAuthorizerInfoBatch"}
  IN  SelectSeq(calls, IsBank)

\* The bank accounts a call log of getEmployerBankInfo has fetched, employer
\* by employer, each with the batch map of its employer: per employer the
\* log holds the active and the deleted query and, when an account has an
\* id, the batch authorizer query; the accounts of an employer are fetched
\* when both queries succeeded.
RECURSIVE FetchedAccounts(_)
FetchedAccounts(entries) ==
  IF Len(entries) < 2 THEN <<>>
  ELSE LET fetched == entries[1].kind = "ok" /\ entries[2].kind = "ok"
           accounts == IF fetched THEN entries[1].value \o entries[2].value ELSE <<>>
           hasBatch == Len(entries) >= 3 /\ entries[3].fn = "fetchAuthorizerInfoBatch"
           map == IF hasBatch /\ entries[3].kind = "ok" THEN entries[3].value ELSE <<>>
           rest == SubSeq(entries, IF hasBatch THEN 4 ELSE 3, Len(entries))
       IN  [i \in 1..Len(accounts) |-> [account |-> accounts[i], map |-> map]]
             \o FetchedAccounts(rest)

\* the value field `key` of the batch map supplies for bank account `id`
AuthorizerValue(map, id, key) ==
  IF id \in DOMAIN map /\ map[id][key] \notin {"", Null, Undef}
  THEN map[id][key] ELSE "null"

\* getEmployerBankInfo is between two employers, or has ended
BetweenEmployers ==
  /\ svcCalls # <<>> /\ svcCalls[Len(svcCalls)].svc = "getEmployerBankInfo"
  /\ frame.svc = "none" \/ frame.spc = "keys"

\* C13: in getEmployerBankInfo the records appended are, employer by
\* employer, exactly one per bank account of every employer whose
\* bank-account fetch succeeded, and each of the four authorizer fields is
\* the value of the batch map when the account id is in the map and the
\* value is non-empty, and the literal "null" otherwise, never the empty
\* string.
C13_AuthorizerFields ==
  BetweenEmployers =>
    LET E == FetchedAccounts(BankLog)
    IN  /\ Len(allRecords) = Len(E)
        /\ \A n \in 1..Len(E) :
             LET r == allRecords[n]
                 id == E[n].account.id
                 map == E[n].map
             IN  /\ r.id = id
                 /\ r.authorizer_first_name = AuthorizerValue(map, id, "authorizerFirstName")
                 /\ r.authorizer_last_name = AuthorizerValue(map, id, "authorizerLastName")
                 /\ r.authorizer_email = AuthorizerValue(map, id, "authorizerEmail")
                 /\ r.client_ip = AuthorizerValue(map, id, "clientIpAddress")
                 /\ \A f \in AuthorizerFields : r[f] # ""

\* C13 witness: three bank accounts were fetched and the batch map held one
\* of them, with a first name and without an email
C13_Witness ==
  /\ BetweenEmployers /\ LastReturned
  /\ Len(allRecords) = 3
  /\ allRecords[1].authorizer_first_name = "Zed"
  /\ allRecords[1].authorizer_email = "null"
  /\ allRecords[2].authorizer_first_name = "null"
  /\ allRecords[3].client_ip = "null"

\* the positions in the call log of the batch authorizer queries
BatchCalls == {i \in 1..Len(calls) : calls[i].fn = "fetchAuthorizerInfoBatch"}

\* the elements of a sequence
Range(seq) == {seq[i] : i \in 1..Len(seq)}

\* C14: within one run of getEmployerBankInfo each bank-account id appears
\* in the id list of at most one batch authorizer query.
C14_NoRefetch ==
  \A i, j \in BatchCalls :
    i < j => Range(calls[i].arg) \cap Range(calls[j].arg) = {}

\* C15: no batch authorizer query is issued for an empty id list, and the
\* key set of the map fetchAuthorizerInfoBatch returns is a subset of the
\* ids it was given (empty when the query failed), each key mapped to a row
\* of that key.
C15_MapKeysSubset ==
  \A i \in BatchCalls :
    /\ calls[i].arg # <<>>
    /\ calls[i].kind \in {"ok", "throw"} =>
         /\ DOMAIN calls[i].value \subseteq Range(calls[i].arg)
         /\ \A k \in DOMAIN calls[i].value : calls[i].value[k].entityId = k

\* C15 witness: a batch authorizer query for two ids returned a map that
\* holds one of them
C15_Witness ==
  \E i \in BatchCalls :
    /\ calls[i].kind = "ok" /\ Len(calls[i].arg) = 2
    /\ DOMAIN calls[i].value = {calls[i].arg[1]}

AdapterFns(s) ==
  CASE s = "getIncreaseTransactions" -> {"fetchPaymentOrders", "fetchACHTransfer"}
    [] s = "getEmployerBankInfo" ->
         {"fetchActiveBankAccounts", "fetchDeletedBankAccounts", "fetchAuthorizerInfoBatch"}
    [] OTHER -> PrimaryFns(s)

\* the adapter calls of service s in the call log, in call order
ServiceLog(s) == LET IsOf(c) == c.fn \in AdapterFns(s) IN SelectSeq(calls, IsOf)

\* the call log of a getIncreaseTransactions run that returned is the one
\* its payroll run ids and the answers dictate: per id the payment-order
\* fetch, followed by one ACH-transfer fetch per joined order, in order
RECURSIVE IncreaseCallsDictated(_, _)
IncreaseCallsDictated(entries, ids) ==
  IF ids = <<>> THEN entries = <<>>
  ELSE /\ entries # <<>>
       /\ entries[1].fn = "fetchPaymentOrders" /\ entries[1].arg = Head(ids)
       /\ LET joined == SelectSeq(entries[1].value, Joined)
              n == Len(joined)
          IN  /\ Len(entries) >= 1 + n
              /\ \A j \in 1..n :
                   /\ entries[1 + j].fn = "fetchACHTransfer"
                   /\ entries[1 + j].arg = FirstTransferId(joined[j])
              /\ IncreaseCallsDictated(SubSeq(entries, 2 + n, Len(entries)), Tail(ids))

\* the ids of the accounts that have one, in order
IdsOf(accounts) ==
  LET HasId(a) == a.id \notin {"", Null, Undef}
      with == SelectSeq(accounts, HasId)
  IN  [i \in 1..Len(with) |-> with[i].id]

\* the call log of a getEmployerBankInfo run that ended is the one its
\* employer ids and the answers dictate: per id the active and the deleted
\* query and, when both succeeded and an account has an id, the batch
\* authorizer query for the ids of the accounts
RECURSIVE BankCallsDictated(_, _)
BankCallsDictated(entries, ids) ==
  IF ids = <<>> THEN entries = <<>>
  ELSE /\ Len(entries) >= 2
       /\ entries[1].fn = "fetchActiveBankAccounts" /\ entries[1].arg = Head(ids)
       /\ entries[2].fn = "fetchDeletedBankAccounts" /\ entries[2].arg = Head(ids)
       /\ LET fetched == entries[1].kind = "ok" /\ entries[2].kind = "ok"
              want == IF fetched THEN IdsOf(entries[1].value \o entries[2].value) ELSE <<>>
          IN  IF want # <<>>
              THEN /\ Len(entries) >= 3
                   /\ entries[3].fn = "fetchAuthorizerInfoBatch" /\ entries[3].arg = want
                   /\ BankCallsDictated(SubSeq(entries, 4, Len(entries)), Tail(ids))
              ELSE BankCallsDictated(SubSeq(entries, 3, Len(entries)), Tail(ids))

\* the adapter calls that the keys and the answers of a service run dictate
CallsDictated(s, ids, idType, entries) ==
  CASE s = "getIncreaseTransactions" -> IncreaseCallsDictated(entries, ids)
    [] s = "getEmployerBankInfo" -> BankCallsDictated(entries, ids)
    [] s = "getWorkerBankInfo" ->
         Len(entries) = 1 /\ entries[1].fn = "fetchWorkerBankAccounts" /\ entries[1].arg = ids
    [] s = "getEmployerInfo" ->
         /\ Len(entries) = Len(ids)
         /\ \A i \in 1..Len(entries) : entries[i].fn = "fetchEmployerById" /\ entries[i].arg = ids[i]
    [] s = "getWorkerInfo" ->
         /\ Len(entries) = Len(ids)
         /\ \A i \in 1..Len(entries) :
              /\ entries[i].arg = ids[i]
              /\ entries[i].fn = IF idType = "worker" THEN "fetchWorkerById"
                             ELSE "fetchWorkersByEmployerId"

\* what the keys and the answers of a service run that returned dictate to
\* be handed to the CSV writer
HandedDictated(s, idType, entries) ==
  CASE s \in KeyedServices -> <<Contributions(s, idType, PrimarySeq(s))>>
    [] s = "getEmployerBankInfo" ->
         LET E == FetchedAccounts(entries)
         IN  IF E = <<>> THEN <<>>
             ELSE <<[n \in 1..Len(E) |-> EmployerBankRecord(E[n].account, E[n].map)]>>
    [] s = "getWorkerBankInfo" ->
         IF entries[1].kind # "ok" \/ entries[1].value = <<>> THEN <<>>
         ELSE <<[i \in 1..Len(entries[1].value) |-> WorkerBankRecord(entries[1].value[i])]>>

\* C17: determinism of the pipeline.  The adapter calls of a service run
\* that returned and the record sequence it handed to the CSV writer are
\* functions of the input key sequence and of the adapters' answers alone:
\* they do not depend on the order in which concurrent queries settle nor
\* on anything else, so two runs with the same keys and the same answers
\* perform the same calls and hand over identical record sequences.
C17_Deterministic ==
  LastReturned =>
    LET c == svcCalls[Len(svcCalls)]
        entries == ServiceLog(c.svc)
    IN  /\ CallsDictated(c.svc, c.ids, c.idType, entries)
        /\ handed[OutputFile[c.svc]] = HandedDictated(c.svc, c.idType, entries)

\* C17 witness: a getEmployerBankInfo run whose two concurrent queries and
\* batch query succeeded handed the two active accounts followed by the
\* deleted account to the CSV writer
C17_Witness ==
  /\ LastReturned /\ svcCalls[Len(svcCalls)].svc = "getEmployerBankInfo"
  /\ Len(calls) = 3 /\ calls[3].kind = "ok"
  /\ Len(handed[OutputFile.getEmployerBankInfo]) = 1
  /\ Len(handed[OutputFile.getEmployerBankInfo][1]) = 3
  /\ handed[OutputFile.getEmployerBankInfo][1][3].bank_name = "Old Bank"

(***************************************************************************)
(* C18: logging                                                            *)
(***************************************************************************)
\* the log modes the logger can run under
LogModes == {OrElse(raw, "INFO") : raw \in RawLogModes}

\* the levels of the lines the console shows under log mode `mode`
Shown(mode) == log(mode) \cup logDebug(mode) \cup logTrace(mode) \cup logError(mode)

\* some service of the run threw
SomeServiceThrew == \E i \in 1..Len(svcCalls) : svcCalls[i].outcome = "threw"

EmployerLookup ==
  [fetchEmployerById |-> "getEmployerInfo",
   fetchWorkersByEmployerId |-> "getWorkerInfo"]

\* the positions in the call log of the employer lookups that found no
\* entity: the adapter raised its not-found error, or dereferenced the
\* missing employer
LookupsWithoutEntity ==
  {i \in 1..Len(calls) :
     /\ calls[i].fn \in DOMAIN EmployerLookup
     /\ calls[i].kind = "throw"
     /\ calls[i].err \in {"not found", "type error"}}

\* C19: an employer lookup (get-employer-info, get-worker-info in employer
\* mode) that finds no entity raises the not-found error, the service that
\* made it throws, and nothing is handed to the writer of its output file.
C19_NotFoundFails ==
  \A i \in LookupsWithoutEntity :
    LET s == EmployerLookup[calls[i].fn]
    IN  /\ calls[i].err = "not found"
        /\ \A j \in 1..Len(svcCalls) :
             svcCalls[j].svc = s => svcCalls[j].outcome \in {"pending", "threw"}
        /\ handed[OutputFile[s]] = <<>>

(***************************************************************************)
(* C20: extractACHTransferId                                               *)
(***************************************************************************)
\* the payment orders Modern Treasury has returned so far
FetchedOrders ==
  UNION {Range(calls[i].value) :
           i \in {k \in 1..Len(calls) : /\ calls[k].fn = "fetchPaymentOrders"
                                        /\ calls[k].kind = "ok"}}

\* the transfer ids the ACH transfers were fetched for
FetchedTransferIds ==
  {calls[i].arg : i \in {k \in 1..Len(calls) : calls[k].fn = "fetchACHTransfer"}}

\* C20 as stated: for every payment order fetched, extractACHTransferId
\* returns the reference_number of the first bnk_dev_transfer_id reference,
\* and null exactly when the order has no such reference.
C20_Original ==
  \A order \in FetchedOrders :
    /\ extractACHTransferId(order) = Null <=> ~HasTransferIdReference(order)
    /\ HasTransferIdReference(order) =>
         extractACHTransferId(order) = FirstTransferId(order)

\* C20: for every payment order fetched, extractACHTransferId returns null
\* when the order has no bnk_dev_transfer_id reference or when the first
\* such reference has an empty reference_number, and otherwise the
\* reference_number of the first such reference; every ACH transfer is
\* fetched for the value it returned for a fetched order.
C20_FirstMatch ==
  /\ \A order \in FetchedOrders :
       extractACHTransferId(order) =
         IF HasTransferIdReference(order)
         THEN OrElse(FirstTransferId(order), Null)
         ELSE Null
  /\ \A id \in FetchedTransferIds :
       /\ id # Null
       /\ \E order \in FetchedOrders :
            HasTransferIdReference(order) /\ id = FirstTransferId(order)

\* C20 witness: a payment order with a reference of another type first and
\* two transfer-id references was fetched, and the ACH transfer was fetched
\* for the first transfer-id reference.
C20_Witness ==
  /\ po_c \in FetchedOrders
  /\ "ach_2" \in FetchedTransferIds
  /\ "ach_3" \notin FetchedTransferIds

(***************************************************************************)
(* C21: the strict services                                                *)
(***************************************************************************)
\* the services without a catch block around their fetches
StrictServices == {"getIncreaseTransactions", "getEmployerInfo"}

\* the positions of the failed fetches in the call log of service s
FailedFetches(s) ==
  {i \in 1..Len(ServiceLog(s)) : ServiceLog(s)[i].kind = "throw"}

\* C21: in getIncreaseTransactions and getEmployerInfo a failed fetch
\* (fetchPaymentOrders, fetchACHTransfer, fetchEmployerById) is the last
\* fetch of the service: the service has thrown, nothing was handed to the
\* writer of its output file and the file does not exist, no later service
\* is started, and the process exits with code 1.
C21_Strict ==
  \A s \in StrictServices :
    FailedFetches(s) # {} =>
      /\ FailedFetches(s) = {Len(ServiceLog(s))}
      /\ frame.svc = "none"
      /\ svcCalls[Len(svcCalls)].svc = s
      /\ svcCalls[Len(svcCalls)].outcome = "threw"
      /\ handed[OutputFile[s]] = <<>>
      /\ ~files[OutputFile[s]].exists
      /\ mainpc = "exited" => exitCode = 1

\* C21 witness: getIncreaseTransactions had accumulated a record when the
\* ACH-transfer fetch of a later payment order failed; nothing was handed
\* to the writer and the process exited with code 1.
C21_Witness ==
  /\ mainpc = "exited" /\ exitCode = 1
  /\ svcCalls[Len(svcCalls)].svc = "getIncreaseTransactions"
  /\ allRecords # <<>>
  /\ calls[Len(calls)].fn = "fetchACHTransfer" /\ calls[Len(calls)].kind = "throw"
  /\ handed[OutputFile.getIncreaseTransactions] = <<>>

(***************************************************************************)
(* C22: the services that isolate failures per key                         *)
(***************************************************************************)
\* the services with a catch block per key
IsolatingServices == {"getWorkerInfo", "getEmployerBankInfo"}

\* the adapter functions that fetch the records of one key of these services
KeyFns ==
  {"fetchWorkerById", "fetchWorkersByEmployerId",
   "fetchActiveBankAccounts", "fetchDeletedBankAccounts"}

\* in this step the fetch the running service awaits for its key fails
KeyFetchFails ==
  \E i \in 1..Len(calls') :
    /\ calls'[i].fn \in KeyFns /\ calls'[i].kind = "throw"
    /\ i > Len(calls) \/ calls[i].kind = "pending"

\* C22: in getWorkerInfo and getEmployerBankInfo a failed fetch for a key
\* leaves the accumulated records as they are, the service goes on to the
\* next key and does not throw; records are added only in the step that
\* completes a key, all of that key's at once; when the service ends every
\* key has been fetched, and it throws only when the write fails.
C22_Isolated ==
  [][frame.svc \in IsolatingServices =>
       /\ KeyFetchFails =>
            /\ allRecords' = allRecords
            /\ frame'.svc = frame.svc /\ frame'.spc = "keys"
            /\ frame'.ki = frame.ki + 1
            /\ thrown' = thrown /\ svcCalls' = svcCalls
       /\ allRecords' # allRecords =>
            /\ ~KeyFetchFails
            /\ frame'.svc = frame.svc /\ frame'.spc = "keys"
            /\ frame'.ki = frame.ki + 1
       /\ frame'.svc = "none" =>
            /\ Cardinality(PrimaryCalls(calls', frame.svc)) = Len(frame.ids)
            /\ thrown' => handed'[OutputFile[frame.svc]] # handed[OutputFile[frame.svc]]
    ]_vars

\* C22 witness: getEmployerBankInfo returned after the fetch for its first
\* key had failed and its second key had contributed records, which were
\* handed to the writer.
C22_Witness ==
  /\ LastReturned /\ svcCalls[Len(svcCalls)].svc = "getEmployerBankInfo"
  /\ Len(svcCalls[Len(svcCalls)].ids) = 2
  /\ \E i \in 1..Len(calls) :
       /\ calls[i].fn \in KeyFns /\ calls[i].kind = "throw"
       /\ calls[i].arg = svcCalls[Len(svcCalls)].ids[1]
       /\ \A j \in 1..Len(calls) :
            calls[j].fn \in KeyFns /\ calls[j].kind = "throw" => calls[j].arg = calls[i].arg
  /\ svcCalls[Len(svcCalls)].ids[1] # svcCalls[Len(svcCalls)].ids[2]
  /\ allRecords # <<>>
  /\ handed[OutputFile.getEmployerBankInfo] = <<allRecords>>
  /\ \A i \in 1..Len(allRecords) :
       allRecords[i].employer_id = svcCalls[Len(svcCalls)].ids[2]

(***************************************************************************)
(* C23: run-all                                                            *)
(***************************************************************************)
\* the services of run-all in the order of the switch case, with their ids
RunAllOrder ==
  <<[svc |-> "getIncreaseTransactions", ids |-> defaultPayrollRunIds, idType |-> ""],
    [svc |-> "getEmployerInfo", ids |-> defaultEmployerIds, idType |-> ""],
    [svc |-> "getEmployerBankInfo", ids |-> defaultEmployerIds, idType |-> ""],
    [svc |-> "getWorkerBankInfo", ids |-> defaultEmployerIds, idType |-> ""],
    [svc |-> "getWorkerInfo", ids |-> defaultEmployerIds, idType |-> "employer"]>>

\* C23: under run-all the services started so far are the first services
\* of the fixed order, each with the default ids; every service but the
\* last one started has returned; a process that exited with code 0 has run
\* all five, one that saw a service throw exits with code 1 having started
\* none after it; and a file is only changed by its own service, so the
\* files of the services before the failing one stay as written.
C23_RunAll ==
  [][(argv = <<"run-all">>) =>
       /\ Len(svcCalls') <= Len(RunAllOrder)
       /\ \A i \in 1..Len(svcCalls') :
            /\ svcCalls'[i].svc = RunAllOrder[i].svc
            /\ svcCalls'[i].ids = RunAllOrder[i].ids
            /\ svcCalls'[i].idType = RunAllOrder[i].idType
            /\ i < Len(svcCalls') => svcCalls'[i].outcome = "returned"
       /\ Len(svcCalls') > Len(svcCalls) =>
            /\ frame.svc = "none" /\ ~thrown
            /\ frame'.svc = svcCalls'[Len(svcCalls')].svc
       /\ mainpc' = "exited" =>
            exitCode' = IF svcCalls'[Len(svcCalls')].outcome = "threw" THEN 1 ELSE 0
       /\ mainpc' = "exited" /\ exitCode' = 0 => Len(svcCalls') = Len(RunAllOrder)
       /\ \A s \in Services :
            files'[OutputFile[s]] # files[OutputFile[s]] => frame.svc = s
    ]_vars

\* C23 witness: under run-all the first two services wrote their files, the
\* third threw, no further service was started and the process exited with
\* code 1 with the two files in place.
C23_Witness ==
  /\ argv = <<"run-all">> /\ mainpc = "exited" /\ exitCode = 1
  /\ Len(svcCalls) = 3 /\ svcCalls[3].outcome = "threw"
  /\ files[OutputFile.getIncreaseTransactions].exists
  /\ files[OutputFile.getEmployerInfo].exists
  /\ ~files[OutputFile.getWorkerBankInfo].exists
  /\ ~files[OutputFile.getWorkerInfo].exists

(***************************************************************************)
(* C24: the arguments of the single commands                               *)
(***************************************************************************)
\* the service each single command invokes
CommandService ==
  [c \in Commands |->
     CASE c = "get-increase-transaction" -> "getIncreaseTransactions"
       [] c = "get-employer-info" -> "getEmployerInfo"
       [] c = "get-employer-bank-info" -> "getEmployerBankInfo"
       [] c = "get-worker-bank-info" -> "getWorkerBankInfo"
       [] c = "get-worker-info" -> "getWorkerInfo"]

\* the built-in list each single command falls back to
DefaultIds ==
  [c \in Commands |->
     IF c = "get-increase-transaction" THEN defaultPayrollRunIds
     ELSE defaultEmployerIds]

\* C24: a single command invokes its service at most once while it runs
\* and exactly once by the time the process exits, with the ids given on
\* the command line, or with the built-in list when none is given;
\* get-worker-info runs in worker mode exactly when its first argument is
\* --worker-id, which is not among the ids passed, else in employer mode;
\* worker mode without ids prints usage, invokes no service, makes no
\* adapter call, writes no file and exits with code 0.
C24_Arguments ==
  (Len(argv) > 0 /\ argv[1] \in Commands) =>
    LET command == argv[1]
        args == Tail(argv)
        workerMode == /\ command = "get-worker-info"
                      /\ args # <<>> /\ args[1] = "--worker-id"
        supplied == IF workerMode THEN Tail(args) ELSE args
    IN  IF workerMode /\ supplied = <<>>
        THEN /\ svcCalls = <<>> /\ todo = <<>> /\ calls = <<>>
             /\ \A f \in FileNames : handed[f] = <<>> /\ ~files[f].exists
             /\ mainpc # "start" => usage
             /\ mainpc = "exited" => exitCode = 0
        ELSE /\ ~usage
             /\ Len(svcCalls) <= 1
             /\ mainpc = "exited" => Len(svcCalls) = 1
             /\ svcCalls # <<>> =>
                  /\ todo = <<>>
                  /\ svcCalls[1].svc = CommandService[command]
                  /\ svcCalls[1].ids =
                       IF supplied = <<>> THEN DefaultIds[command] ELSE supplied
                  /\ command = "get-worker-info" =>
                       svcCalls[1].idType = IF workerMode THEN "worker" ELSE "employer"

\* C24 witness: get-worker-info --worker-id with one worker id has run its
\* service in worker mode with that id alone and exited.
C24_Witness ==
  /\ Len(argv) = 3 /\ argv[1] = "get-worker-info" /\ argv[2] = "--worker-id"
  /\ mainpc = "exited" /\ Len(svcCalls) = 1
  /\ svcCalls[1].idType = "worker" /\ svcCalls[1].ids = <<argv[3]>>
  /\ \E i \in 1..Len(calls) : calls[i].fn = "fetchWorkerById" /\ calls[i].arg = argv[3]

(***************************************************************************)
(* C25: the Neo4j driver                                                   *)
(***************************************************************************)
\* the sessions opened in this step
OpenedSessions == {s \in sessions' : s.call > Len(calls)}

\* C25: a driver is created only in a step that starts a query, only when
\* no driver is held, and one per step also when the two bank-account
\* queries are started together; the driver held is the one created last,
\* or none; every session is opened on the driver held; and the driver held
\* changes only by being closed or by a fresh one being created when none
\* is held.
C25_LazySingleton ==
  [][/\ driversCreated' \in {driversCreated, driversCreated + 1}
     /\ driversCreated' # driversCreated =>
          /\ neo4jDriver = 0
          /\ neo4jDriver' = driversCreated'
          /\ OpenedSessions # {}
     /\ \A s \in OpenedSessions : s.driver # 0 /\ s.driver = neo4jDriver'
     /\ neo4jDriver' # neo4jDriver =>
          \/ neo4jDriver' = 0
          \/ neo4jDriver = 0 /\ driversCreated' = driversCreated + 1
     /\ neo4jDriver' \in {0, driversCreated'}
     /\ driversCreated' > 0 =>
          \E i \in 1..Len(calls') : calls'[i].sys = "Neo4j" /\ calls'[i].sent
    ]_vars

\* C25 witness: after getEmployerBankInfo had created, used and closed a
\* driver, the query of getWorkerBankInfo runs on a second, fresh driver.
C25_Witness ==
  /\ driversCreated = 2 /\ neo4jDriver = 2
  /\ frame.svc = "getWorkerBankInfo"
  /\ \E s \in sessions : s.driver = 2 /\ s.q = "workers"
  /\ \E i \in 1..Len(calls) :
       calls[i].fn = "fetchAuthorizerInfoBatch" /\ calls[i].kind = "ok"

(***************************************************************************)
(* C26: closing the driver                                                 *)
(***************************************************************************)
\* C26: whenever closeNeo4jConnection closes the driver, every session
\* opened by executeNeo4jQuery has finished its query and been closed.
C26_NoCloseInFlight ==
  [][(neo4jDriver # 0 /\ neo4jDriver' = 0) => sessions' = {}]_vars

(***************************************************************************)
(* C27: the single and the batch authorizer lookup                         *)
(***************************************************************************)
\* the answer to the single lookup for id, when the batch query is answered
\* with `response`: the rows of that answer that belong to id, in order
SingleResponse(response, id) ==
  LET IsOf(row) == row.entityId = id
  IN  [ok |-> response.ok, rows |-> SelectSeq(response.rows, IsOf)]

\* C27: for the id list of every batch authorizer query issued, every
\* answer the database may give and every id of the list, the map of
\* fetchAuthorizerInfoBatch has an entry for the id exactly when
\* fetchAuthorizerInfo returns a row for it, and the entry is that row.
C27_LookupsAgree ==
  \A c \in BatchCalls :
    \A response \in Neo4jResponses(AuthorizerRows(calls[c].arg)) :
      LET authorizerInfoMap == fetchAuthorizerInfoBatch(response)
      IN  \A id \in Range(calls[c].arg) :
            LET single == fetchAuthorizerInfo(SingleResponse(response, id))
            IN  /\ id \in DOMAIN authorizerInfoMap <=> single # <<>>
                /\ id \in DOMAIN authorizerInfoMap =>
                     authorizerInfoMap[id] = single[1]

(***************************************************************************)
(* C28: the logging interceptors                                           *)
(***************************************************************************)
\* the interceptors registered when the modules are loaded: one request and
\* one response interceptor each by increase.ts and salsa-graphql.ts
RegisteredAtLoad == [request |-> 2, response |-> 2]

\* C28: the number of request and of response interceptors registered on
\* the shared HTTP client is the number registered at module load.
C28_InterceptorsConstant == interceptors = RegisteredAtLoad

====
